---------------------------- MODULE Spec2Model ----------------------------
(***************************************************************************)
(* A model of the gallery application: the Modal navigator, the            *)
(* GalleryApp coordinator's event wiring around it, the Theme controller   *)
(* and the Filters.                                                        *)
(*                                                                         *)
(* Eight specifications share the module:                                   *)
(*   Spec        the wired application around the modal: the Modal's API,  *)
(*               its own listeners (keyboard, controls, touch, imageClick) *)
(*               and GalleryApp's document listeners (imageClick,          *)
(*               modalNavigation, keydown).                                *)
(*   SpecTheme   the Theme controller: startup, toggle, setTheme,          *)
(*               importSettings, reset, the toggle button, the system      *)
(*               colour-scheme listener and the storage listener.          *)
(*   SpecTabs    several tabs, each with its own Theme, over one shared    *)
(*               localStorage, with storage events in flight.              *)
(*   SpecFilters the Filters criteria: setters, setState, clear, the       *)
(*               control listeners, the URL written and restored.          *)
(*   SpecApply   Filters.apply as a function of criteria, image list and   *)
(*               sort engine.                                              *)
(*   SpecApp     the application after GalleryApp.init(): the filter       *)
(*               controls with Filters' and GalleryApp's listeners, the    *)
(*               debounce timers, updateGallery, the rendered cards and    *)
(*               the modal opened from a card.                             *)
(*   SpecAppLive SpecApp with the timers of the page fired eventually.     *)
(*   SpecGallery the Gallery component alone, its render taken stage by    *)
(*               stage so that a call of update can arrive inside it.      *)
(* Indexes are 0-based as in the source; TLA+ sequences are 1-based, so    *)
(* images[currentIndex] of the source is images[currentIndex + 1] here.    *)
(***************************************************************************)
EXTENDS Integers, Sequences, FiniteSets, TLC

VARIABLES
    \* ---- Modal (modal.js) ----
    isOpen,          \* this.isOpen
    images,          \* this.images: the snapshot given at open time
    currentIndex,    \* this.currentIndex (0-based)
    bodyOverflow,    \* document.body.style.overflow: "hidden" or ""
    \* ---- GalleryApp / Gallery ----
    galleryImages,   \* Gallery.images: the list currently rendered
    currentImages,   \* GalleryApp.currentImages
    \* ---- event dispatch in progress ----
    depth,           \* nested Modal.navigate frames whose modalNavigation
                     \* event is being delivered (0: no handler running)
    navDir,          \* detail.direction of the event being delivered
    navEvents,       \* modalNavigation events published by the handler
    navStart,        \* currentIndex when the running handler started
    last,            \* the operation the last step performed, its inputs
    \* ---- Theme (theme.js) ----
    currentTheme,    \* this.currentTheme
    appliedTheme,    \* data-theme attribute of the document root
    storage,         \* localStorage['gallery-theme'] (Null when absent)
    systemDark,      \* prefersDarkScheme.matches
    themeEvents,     \* themeChanged events published by the last handler
    tlast,           \* the theme operation of the last step, its input
    writeFailed,     \* a localStorage.setItem of the last handler threw
    toggleRun,       \* consecutive toggle() calls so far (0..3)
    toggleStart,     \* the mode when that run of toggle() calls began
    \* ---- several tabs of the origin, each with its own Theme ----
    tabTheme,        \* tab -> this.currentTheme of that tab's Theme
    tabApplied,      \* tab -> data-theme attribute of that tab's document
    inbox,           \* tab -> storage events queued for the tab (newValues)
    \* ---- Filters (filters.js) ----
    searchTerm,      \* this.searchTerm (a string: sequence of characters)
    selectedCategory,\* this.selectedCategory
    sortBy,          \* this.sortBy
    sortOrder,       \* this.sortOrder
    url,             \* the query parameters of window.location
    flast,           \* the Filters operation of the last step, its inputs
    \* ---- Filters.apply as a function of its inputs ----
    engine,          \* the JavaScript engine whose Array.prototype.sort runs
    data,            \* the image list handed to apply (ids of the Catalog)
    filtered,        \* the list apply returned
    \* ---- the application after init() (app.js, gallery.js) ----
    dataKind,        \* what gallery.json held: "ok", or what it lacked
    master,          \* data.images as loadData received it
    filtersBuilt,    \* GalleryApp.filters is a Filters (not null)
    listening,       \* setupEventListeners() ran
    loading,         \* the loading indicator is shown
    container,       \* the content of #gallery: its kind and its cards
    inputValue,      \* searchInput.value
    timers,          \* the pending timeouts, in the order they will fire
    burstKeys,       \* keystrokes since GalleryApp's timer last fired
    burstRenders,    \* recompute+render runs since the burst began
    activated,       \* index of the card the last step activated, or -1
    \* ---- Gallery.render() in progress ----
    isRendering,     \* Gallery.isRendering
    renderStage,     \* how far the running render() got ("idle": none)
    renderList,      \* the array the running render's forEach iterates
    renderOf,        \* this.images when the running render() began
    dropped,         \* an update arrived inside the last render()
    \* ---- Gallery.toggleView ----
    viewMode,        \* Gallery.viewMode: "grid" or "list"
    viewEvents,      \* detail.viewMode of the viewChanged events the last
                     \* step published
    toggled,         \* the last step was a toggleView() call
    \* ---- GalleryApp.updateGallery's catch ----
    raised,          \* the last updateGallery() reached its catch
    \* ---- the modal's image element and close's timeouts ----
    modalSrc,        \* modalImage.src: the id of the image shown, 0 for ''
    releases,        \* pending timeouts of close() (each 300 ms)
    \* ---- the cards' img elements and the lazy loading ----
    cardImgs,        \* card -> its img element and the observer's view of it
    resizeTimer      \* Gallery.resizeTimeout is pending

modalVars == <<isOpen, images, currentIndex, bodyOverflow>>
appVars   == <<galleryImages, currentImages>>
navVars   == <<depth, navDir, navEvents, navStart>>
themeVars == <<currentTheme, appliedTheme, storage, systemDark, themeEvents,
               tlast, writeFailed, toggleRun, toggleStart>>
tabVars   == <<tabTheme, tabApplied, inbox>>
filterVars == <<searchTerm, selectedCategory, sortBy, sortOrder, url, flast>>
applyVars == <<engine, data, filtered>>
wiredVars == <<dataKind, master, filtersBuilt, listening, loading, container,
               inputValue, timers, burstKeys, burstRenders, activated>>
renderVars == <<isRendering, renderStage, renderList, renderOf, dropped>>
viewVars  == <<viewMode, viewEvents, toggled>>
relVars   == <<modalSrc, releases>>
lazyVars  == <<cardImgs, resizeTimer>>
lateVars  == <<viewVars, raised, relVars, lazyVars>>
restVars  == <<tabVars, filterVars, applyVars, wiredVars, renderVars,
               lateVars>>
vars      == <<modalVars, appVars, navVars, last, themeVars, restVars>>

---------------------------------------------------------------------------
(* Bounds of the model *)

\* Number of images of the master list; image lists are its sub-lists.
MaxLen == 3
\* Depth of nested navigate frames at which the engine's call stack is
\* exhausted (in a browser: some thousands, engine dependent).
StackLimit == 3
\* Number of tabs of the origin that run the application side by side.
NumTabs == 2
\* Storage events that may wait for one tab at a time.
MaxInbox == 2
\* Length of the longest image list handed to Filters.apply.
MaxImages == 4

---------------------------------------------------------------------------
(* Helpers *)

Max(a, b) == IF a >= b THEN a ELSE b
Min(a, b) == IF a <= b THEN a ELSE b

\* Image ids of the master list, in master order.
Ids == 1..MaxLen

RECURSIVE SubLists(_)
\* All order-preserving sub-lists of a sequence.
SubLists(s) ==
    IF s = <<>> THEN {<<>>}
    ELSE LET rest == SubLists(Tail(s))
         IN  rest \cup {<<Head(s)>> \o r : r \in rest}

Master == [i \in Ids |-> i]
\* The image lists handed to the gallery and to Modal.open.
Lists == SubLists(Master)

\* Requested indexes: below 0, in range, and beyond the longest list.
Indexes == -1..(MaxLen + 1)
\* Arguments of a direct navigate call.
NavArgs == -2..2

Keys == {"Escape", "ArrowLeft", "ArrowRight", "Home", "End", " ", "a"}
\* e.target.tagName of a key event.
Targets == {"INPUT", "TEXTAREA", "BODY"}
TextInputs == {"INPUT", "TEXTAREA"}

NoList == <<>>
Op(op, arg, key, target, list) ==
    [op |-> op, arg |-> arg, key |-> key, target |-> target, list |-> list]

---------------------------------------------------------------------------
(* Modal: pure parts.  A modal state m is a record of the four fields. *)

ModalState ==
    [isOpen |-> isOpen, images |-> images, currentIndex |-> currentIndex,
     bodyOverflow |-> bodyOverflow]

SetModal(m) ==
    /\ isOpen' = m.isOpen
    /\ images' = m.images
    /\ currentIndex' = m.currentIndex
    /\ bodyOverflow' = m.bodyOverflow

ClampIndexUnclamped(index, len) == index
\* Math.max(0, Math.min(index, images.length - 1))
ClampIndex(index, len) == Max(0, Min(index, len - 1))

ModalOpenClampOld(m, index, imgs) ==
    [isOpen |-> TRUE, images |-> imgs,
     currentIndex |-> ClampIndex(index, Len(m.images)),
     bodyOverflow |-> "hidden"]
\* Modal.open(index, images)
ModalOpen(m, index, imgs) ==
    [isOpen |-> TRUE, images |-> imgs,
     currentIndex |-> ClampIndex(index, Len(imgs)),
     bodyOverflow |-> "hidden"]

ModalCloseKeepsFrozen(m) == [m EXCEPT !.isOpen = FALSE]
\* Modal.close()
ModalClose(m) ==
    IF ~m.isOpen THEN m
    ELSE [m EXCEPT !.isOpen = FALSE, !.bodyOverflow = ""]

\* navigate proceeds unless (!this.isOpen || this.images.length <= 1)
NavigateGuard(m) == m.isOpen /\ Len(m.images) > 1

NavigateIndexNoWrap(cur, direction, len) ==
    LET newIndex == cur + direction
    IN  IF newIndex < 0 THEN 0
        ELSE IF newIndex >= len THEN len - 1
        ELSE newIndex
\* the index navigate assigns
NavigateIndex(cur, direction, len) ==
    LET newIndex == cur + direction
    IN  IF newIndex < 0 THEN len - 1
        ELSE IF newIndex >= len THEN 0
        ELSE newIndex

\* Modal.navigate(direction), up to its dispatchEvent
ModalNavigate(m, direction) ==
    IF NavigateGuard(m)
    THEN [m EXCEPT !.currentIndex =
                     NavigateIndex(m.currentIndex, direction, Len(m.images))]
    ELSE m

GoToImageGuardOffByOne(m, index) ==
    m.isOpen /\ ~(index < 0) /\ ~(index > Len(m.images))
\* goToImage proceeds unless (!isOpen || index < 0 || index >= length)
GoToImageGuard(m, index) ==
    m.isOpen /\ ~(index < 0) /\ ~(index >= Len(m.images))

\* Modal.goToImage(index)
ModalGoToImage(m, index) ==
    IF GoToImageGuard(m, index) THEN [m EXCEPT !.currentIndex = index] ELSE m

\* The swipe thresholds of the touchend listener.
SwipeMinDistance == 50
SwipeMinVelocityNum == 3        \* velocity > 0.3, as the fraction 3 / 10
SwipeMinVelocityDen == 10
SwipeMaxDuration == 500
SwipeCloseDistance == 100

Abs(x) == IF x < 0 THEN 0 - x ELSE x

\* distance > 50 && velocity > 0.3 && deltaTime < 500, with
\* distance = sqrt(dx^2 + dy^2) and velocity = distance / deltaTime; both
\* comparisons are taken on the squares (deltaTime >= 0; a zero deltaTime
\* gives an infinite velocity for a non-zero distance).
IsSwipe(dx, dy, dt) ==
    LET d2 == dx * dx + dy * dy
    IN  /\ d2 > SwipeMinDistance * SwipeMinDistance
        /\ SwipeMinVelocityDen * SwipeMinVelocityDen * d2
              > SwipeMinVelocityNum * SwipeMinVelocityNum * dt * dt
        /\ dt < SwipeMaxDuration

\* What the touchend listener does with a gesture: "prev", "next", "close"
\* or "none".
SwipeAction(dx, dy, dt) ==
    IF ~IsSwipe(dx, dy, dt) THEN "none"
    ELSE IF Abs(dx) > Abs(dy) THEN (IF dx > 0 THEN "prev" ELSE "next")
    ELSE IF dy > 0 /\ Abs(dy) > SwipeCloseDistance THEN "close"
    ELSE "none"

\* Gesture displacements (pixels) and durations (ms) tried.
DeltasX == {-60, 0, 60}
DeltasY == {-120, 0, 120}
Durations == {100, 600}

---------------------------------------------------------------------------
(* Init of the wired application: components constructed, the gallery     *)
(* rendered with the coordinator's current list.                          *)

ThemeIdle ==
    /\ currentTheme = "light"
    /\ appliedTheme = "light"
    /\ storage = "<null>"
    /\ systemDark = FALSE
    /\ themeEvents = 0
    /\ tlast = [op |-> "init", arg |-> "<null>", result |-> "none"]
    /\ writeFailed = FALSE
    /\ toggleRun = 0
    /\ toggleStart = "light"

\* The view mode, the modal's image element and the cards' images, where
\* a specification does not exercise them.
ViewIdle ==
    /\ viewMode = "grid"
    /\ viewEvents = <<>>
    /\ toggled = FALSE

\* No updateGallery() raised, the modal's image element is empty and no
\* timeout of close() is pending.
QuietIdle ==
    /\ ViewIdle
    /\ raised = FALSE
    /\ modalSrc = 0
    /\ releases = 0

LateIdle ==
    /\ QuietIdle
    /\ cardImgs = <<>>
    /\ resizeTimer = FALSE

\* The application's wiring and the gallery's render, where a
\* specification does not exercise them.
WiredIdle ==
    /\ dataKind = "ok"
    /\ master = <<>>
    /\ filtersBuilt = FALSE
    /\ listening = FALSE
    /\ loading = FALSE
    /\ container = [kind |-> "none", cards |-> <<>>]
    /\ inputValue = <<>>
    /\ timers = <<>>
    /\ burstKeys = 0
    /\ burstRenders = 0
    /\ activated = -1
    /\ isRendering = FALSE
    /\ renderStage = "idle"
    /\ renderList = <<>>
    /\ renderOf = <<>>
    /\ dropped = FALSE

\* The tabs, the Filters and apply's inputs, where a specification does not
\* exercise them.
CoreIdle ==
    /\ WiredIdle
    /\ tabTheme = <<>>
    /\ tabApplied = <<>>
    /\ inbox = <<>>
    /\ searchTerm = <<>>
    /\ selectedCategory = <<>>
    /\ sortBy = "name"
    /\ sortOrder = "asc"
    /\ url = [search |-> <<>>, category |-> <<>>, sort |-> "<null>",
              order |-> "<null>"]
    /\ flast = [op |-> "init", key |-> "", order |-> ""]
    /\ engine = "none"
    /\ data = <<>>
    /\ filtered = <<>>

RestIdle ==
    /\ CoreIdle
    /\ LateIdle

Init ==
    /\ isOpen = FALSE
    /\ images = <<>>
    /\ currentIndex = 0
    /\ bodyOverflow = ""
    /\ galleryImages \in Lists
    /\ currentImages = galleryImages
    /\ depth = 0
    /\ navDir = 0
    /\ navEvents = 0
    /\ navStart = 0
    /\ last = Op("init", 0, "", "", NoList)
    /\ ThemeIdle
    /\ RestIdle

---------------------------------------------------------------------------
(* Handlers.  A handler that ran Modal.navigate past its guard has         *)
(* published a modalNavigation event, whose delivery to GalleryApp's       *)
(* listener is the next step (depth = 1); no other input is handled until  *)
(* the dispatch has unwound (the page is single-threaded).                 *)

\* The end of a top-level handler's own code: the modal is m2; navigated
\* says that navigate(direction) passed its guard and dispatched its event.
Finish(m2, navigated, direction, op) ==
    /\ SetModal(m2)
    /\ navStart' = currentIndex
    /\ navDir' = IF navigated THEN direction ELSE 0
    /\ navEvents' = IF navigated THEN 1 ELSE 0
    /\ depth' = IF navigated THEN 1 ELSE 0
    /\ last' = op
    /\ UNCHANGED <<appVars, themeVars, restVars>>

\* modal.open(index, images), called directly
CallOpen(index, imgs) ==
    /\ depth = 0
    /\ Finish(ModalOpen(ModalState, index, imgs), FALSE, 0,
              Op("open", index, "", "", imgs))

\* modal.close(): direct call, the close control, a click on the backdrop
CallClose ==
    /\ depth = 0
    /\ Finish(ModalClose(ModalState), FALSE, 0, Op("close", 0, "", "", NoList))

\* modal.navigate(direction), called directly
CallNavigate(direction) ==
    /\ depth = 0
    /\ Finish(ModalNavigate(ModalState, direction), NavigateGuard(ModalState),
              direction, Op("navigate", direction, "", "", NoList))

\* a click on the previous (-1) or next (+1) control
NavClick(direction) ==
    /\ depth = 0
    /\ Finish(ModalNavigate(ModalState, direction), NavigateGuard(ModalState),
              direction, Op("navclick", direction, "", "", NoList))

\* modal.goToImage(index), called directly
CallGoToImage(index) ==
    /\ depth = 0
    /\ Finish(ModalGoToImage(ModalState, index), FALSE, 0,
              Op("goToImage", index, "", "", NoList))

\* The direction handleKeyboard navigates in for a key, 0 when it does not.
KeyDirection(key, shift) ==
    IF key = "ArrowLeft" THEN -1
    ELSE IF key = "ArrowRight" THEN 1
    ELSE IF key = " " THEN (IF shift THEN -1 ELSE 1)
    ELSE 0

\* Modal.handleKeyboard(e): the event's target is not consulted
HandleKeyboard(m, key, shift, target) ==
    IF ~m.isOpen THEN m
    ELSE IF key = "Escape" THEN ModalClose(m)
    ELSE IF KeyDirection(key, shift) # 0
         THEN ModalNavigate(m, KeyDirection(key, shift))
    ELSE IF key = "Home" THEN ModalGoToImage(m, 0)
    ELSE IF key = "End" THEN ModalGoToImage(m, Len(m.images) - 1)
    ELSE m

\* GalleryApp.handleKeyboardShortcuts(e) for the keys of Keys: it returns
\* at once for a text input, and none of these keys is one of its shortcuts.
HandleKeyboardShortcuts(m, key, target) == m

\* A keydown on the document: Modal's listener, then GalleryApp's.
KeyDown(key, shift, target) ==
    /\ depth = 0
    /\ LET m1 == HandleKeyboard(ModalState, key, shift, target)
           m2 == HandleKeyboardShortcuts(m1, key, target)
           navigated == /\ KeyDirection(key, shift) # 0
                        /\ NavigateGuard(ModalState)
       IN  Finish(m2, navigated, KeyDirection(key, shift),
                  Op("keydown", IF shift THEN 1 ELSE 0, key, target, NoList))

\* The touchend listener of the modal; touches is e.touches.length.
TouchEnd(dx, dy, dt, touches) ==
    /\ depth = 0
    /\ LET m == ModalState
           act == IF ~m.isOpen \/ touches > 0 THEN "none"
                  ELSE SwipeAction(dx, dy, dt)
           direction == IF act = "prev" THEN -1
                        ELSE IF act = "next" THEN 1 ELSE 0
           m2 == IF act = "close" THEN ModalClose(m)
                 ELSE IF direction # 0 THEN ModalNavigate(m, direction)
                 ELSE m
       IN  Finish(m2, direction # 0 /\ NavigateGuard(m), direction,
                  Op("touchend", direction, act, "", NoList))

\* Gallery.openImage(index): a card is activated. The imageClick event
\* reaches Modal's listener (open with detail.images), then GalleryApp's
\* (open with this.currentImages).
CardActivate(index) ==
    /\ depth = 0
    /\ index \in 0..(Len(galleryImages) - 1)
    /\ LET m1 == ModalOpen(ModalState, index, galleryImages)
           m2 == ModalOpen(m1, index, currentImages)
       IN  Finish(m2, FALSE, 0,
                  Op("cardActivate", index, "", "", galleryImages))

\* Enter or Space is pressed on a focused card: the card's keydown
\* listener calls openImage(index), whose imageClick event reaches Modal's
\* listener and GalleryApp's; the keydown then reaches the document, where
\* Modal's keydown listener runs, then GalleryApp's.
CardKeyActivate(index, key, shift) ==
    /\ depth = 0
    /\ index \in 0..(Len(galleryImages) - 1)
    /\ LET m1 == ModalOpen(ModalState, index, galleryImages)
           m2 == ModalOpen(m1, index, currentImages)
           m3 == HandleKeyboard(m2, key, shift, "ARTICLE")
           m4 == HandleKeyboardShortcuts(m3, key, "ARTICLE")
           navigated == KeyDirection(key, shift) # 0 /\ NavigateGuard(m2)
       IN  Finish(m4, navigated, KeyDirection(key, shift),
                  Op("cardKey", index, key, "ARTICLE", galleryImages))

\* GalleryApp's modalNavigation listener: this.modal.navigate(direction),
\* run inside the dispatchEvent of the navigate that published the event.
AppOnModalNavigation ==
    /\ depth >= 1
    /\ depth < StackLimit
    /\ SetModal(ModalNavigate(ModalState, navDir))
    /\ navEvents' = IF NavigateGuard(ModalState) THEN navEvents + 1
                    ELSE navEvents
    /\ depth' = IF NavigateGuard(ModalState) THEN depth + 1 ELSE 0
    /\ UNCHANGED <<navDir, navStart, last, appVars, themeVars, restVars>>

\* The call stack is exhausted: the innermost listener call raises a
\* RangeError, the dispatch reports it, and every frame returns.
StackOverflow ==
    /\ depth = StackLimit
    /\ depth' = 0
    /\ UNCHANGED <<modalVars, navDir, navEvents, navStart, last, appVars,
                   themeVars, restVars>>

Next ==
    \/ \E index \in Indexes, imgs \in Lists : CallOpen(index, imgs)
    \/ CallClose
    \/ \E direction \in NavArgs : CallNavigate(direction)
    \/ \E direction \in {-1, 1} : NavClick(direction)
    \/ \E index \in Indexes : CallGoToImage(index)
    \/ \E key \in Keys, shift \in BOOLEAN, target \in Targets :
          KeyDown(key, shift, target)
    \/ \E dx \in DeltasX, dy \in DeltasY, dt \in Durations, touches \in {0, 1} :
          TouchEnd(dx, dy, dt, touches)
    \/ \E index \in Indexes : CardActivate(index)
    \/ \E index \in Indexes, key \in {"Enter", " "}, shift \in BOOLEAN :
          CardKeyActivate(index, key, shift)
    \/ AppOnModalNavigation
    \/ StackOverflow

Spec == Init /\ [][Next]_vars

---------------------------------------------------------------------------
(* Theme controller *)

\* null / undefined: an absent storage item, a missing field
Null == "<null>"
\* ['light', 'dark', 'auto'], the array of toggle
Themes == <<"light", "dark", "auto">>
\* Strings that may sit in storage, arrive in a storage event or be passed
\* to setTheme: the legal values, an illegal one, and the empty string.
StoredStrings == {"light", "dark", "auto", "blue", ""}
ThemeInputs == StoredStrings \cup {Null}

\* JavaScript truthiness of a string-or-null value
Truthy(v) == v # Null /\ v # ""

IsValidThemeAnyString(theme) == Truthy(theme)
\* ['light', 'dark', 'auto'].includes(theme)
IsValidTheme(theme) == \E i \in 1..Len(Themes) : Themes[i] = theme

\* themes.indexOf(theme): 0-based, -1 when absent
IndexOf(theme) ==
    IF \E i \in 1..Len(Themes) : Themes[i] = theme
    THEN (CHOOSE i \in 1..Len(Themes) : Themes[i] = theme) - 1
    ELSE -1

ToggleNextTwoWay(theme) == IF theme = "light" THEN "dark" ELSE "light"
\* themes[(currentIndex + 1) % themes.length] of toggle
ToggleNext(theme) == Themes[((IndexOf(theme) + 1) % Len(Themes)) + 1]

\* this.prefersDarkScheme?.matches as getInitialTheme reads it: the
\* constructor calls getInitialTheme before it assigns prefersDarkScheme,
\* so the field is still undefined and the test is false.
PrefersDarkAtConstruction(dark) == FALSE

\* Theme.getInitialTheme()
GetInitialTheme(stored, dark) ==
    IF Truthy(stored) /\ IsValidTheme(stored) THEN stored
    ELSE IF PrefersDarkAtConstruction(dark) THEN "dark"
    ELSE "light"

GetEffectiveThemeAutoIsLight(theme, dark) ==
    IF theme = "auto" THEN "light" ELSE theme
\* Theme.getEffectiveTheme()
GetEffectiveTheme(theme, dark) ==
    IF theme = "auto" THEN (IF dark THEN "dark" ELSE "light") ELSE theme

\* A theme state t is a record of the fields a handler changes.
ThemeState ==
    [currentTheme |-> currentTheme, appliedTheme |-> appliedTheme,
     storage |-> storage, events |-> 0, failed |-> FALSE]

ThemeSetThemeSaveThrows(t, theme, writeOk) ==
    IF ~IsValidTheme(theme) THEN t
    ELSE [currentTheme |-> theme,
          appliedTheme |-> GetEffectiveTheme(theme, systemDark),
          storage |-> IF writeOk THEN theme ELSE t.storage,
          events |-> IF writeOk THEN t.events + 1 ELSE t.events,
          failed |-> t.failed \/ ~writeOk]
\* Theme.setTheme(theme); writeOk: localStorage.setItem did not throw
\* (saveToStorage catches the failure).
ThemeSetTheme(t, theme, writeOk) ==
    IF ~IsValidTheme(theme) THEN t
    ELSE [currentTheme |-> theme,
          appliedTheme |-> GetEffectiveTheme(theme, systemDark),
          storage |-> IF writeOk THEN theme ELSE t.storage,
          events |-> t.events + 1,
          failed |-> t.failed \/ ~writeOk]

\* Theme.toggle()
ThemeToggle(t, writeOk) == ThemeSetTheme(t, ToggleNext(t.currentTheme), writeOk)

\* Bookkeeping of runs of consecutive toggle() calls: <<run, start>> after
\* one more toggle() call made when the mode is cur.
CountToggle(run, start, cur) ==
    IF run = 0 \/ run = 3 THEN <<1, cur>> ELSE <<run + 1, start>>

TOp(op, arg, result) == [op |-> op, arg |-> arg, result |-> result]

\* The end of a theme handler.
FinishTheme(t, op, run) ==
    /\ currentTheme' = t.currentTheme
    /\ appliedTheme' = t.appliedTheme
    /\ storage' = t.storage
    /\ themeEvents' = t.events
    /\ tlast' = op
    /\ writeFailed' = t.failed
    /\ toggleRun' = run[1]
    /\ toggleStart' = IF run[1] = 0 THEN t.currentTheme ELSE run[2]
    /\ UNCHANGED <<systemDark, modalVars, appVars, navVars, last, restVars>>

NoRun == <<0, Null>>

\* new Theme(): the page is loaded (or reloaded) with the storage as it is
Startup ==
    LET theme == GetInitialTheme(storage, systemDark)
    IN  FinishTheme([currentTheme |-> theme,
                     appliedTheme |-> GetEffectiveTheme(theme, systemDark),
                     storage |-> storage, events |-> 0, failed |-> FALSE],
                    TOp("startup", storage, "ok"), NoRun)

\* theme.toggle(): a direct call, the Ctrl+T shortcut, Enter or Space on
\* the toggle button
Toggle(writeOk) ==
    FinishTheme(ThemeToggle(ThemeState, writeOk), TOp("toggle", Null, "ok"),
                CountToggle(toggleRun, toggleStart, currentTheme))

\* A click on the toggle button: Theme's click listener calls toggle(),
\* then GalleryApp's click listener calls theme.toggle().
ThemeButtonClick(writeOk1, writeOk2) ==
    LET t1 == ThemeToggle(ThemeState, writeOk1)
        r1 == CountToggle(toggleRun, toggleStart, currentTheme)
        t2 == ThemeToggle(t1, writeOk2)
        r2 == CountToggle(r1[1], r1[2], t1.currentTheme)
    IN  FinishTheme(t2, TOp("click", Null, "ok"), r2)

\* theme.setTheme(theme)
SetTheme(theme, writeOk) ==
    FinishTheme(ThemeSetTheme(ThemeState, theme, writeOk),
                TOp("setTheme", theme, "ok"), NoRun)

\* theme.importSettings(settings): isObject is (settings && typeof settings
\* === 'object'), theme is settings.theme (Null when the field is missing)
ImportSettings(isObject, theme, writeOk) ==
    IF ~isObject
    THEN FinishTheme(ThemeState, TOp("importSettings", "<nonobject>", "throw"),
                     NoRun)
    ELSE IF Truthy(theme) /\ IsValidTheme(theme)
    THEN FinishTheme(ThemeSetTheme(ThemeState, theme, writeOk),
                     TOp("importSettings", theme, "true"), NoRun)
    ELSE FinishTheme(ThemeState, TOp("importSettings", theme, "false"), NoRun)

\* theme.reset()
Reset(writeOk) ==
    FinishTheme(ThemeSetTheme(ThemeState,
                              IF systemDark THEN "dark" ELSE "light", writeOk),
                TOp("reset", Null, "ok"), NoRun)

\* The system colour scheme changes; the 'change' listener re-applies the
\* theme when the mode is auto.
SystemPreferenceChange ==
    /\ systemDark' = ~systemDark
    /\ appliedTheme' = IF currentTheme = "auto"
                       THEN GetEffectiveTheme(currentTheme, systemDark')
                       ELSE appliedTheme
    /\ themeEvents' = 0
    /\ tlast' = TOp("systemChange", Null, "ok")
    /\ writeFailed' = FALSE
    /\ toggleRun' = 0
    /\ toggleStart' = currentTheme
    /\ UNCHANGED <<currentTheme, storage, modalVars, appVars, navVars, last,
                   restVars>>

\* Another tab of the origin stores newValue under key (Null: it removes
\* the item); the 'storage' listener of this tab runs.
StorageEvent(key, newValue) ==
    LET mine == key = "gallery-theme"
        taken == mine /\ Truthy(newValue)
        t == ThemeState
    IN  FinishTheme([currentTheme |-> IF taken THEN newValue
                                      ELSE t.currentTheme,
                     appliedTheme |-> IF taken
                                      THEN GetEffectiveTheme(newValue, systemDark)
                                      ELSE t.appliedTheme,
                     storage |-> IF mine THEN newValue ELSE t.storage,
                     events |-> 0, failed |-> FALSE],
                    TOp("storage", newValue, "ok"), NoRun)

ModalIdle ==
    /\ isOpen = FALSE
    /\ images = <<>>
    /\ currentIndex = 0
    /\ bodyOverflow = ""
    /\ galleryImages = <<>>
    /\ currentImages = <<>>
    /\ depth = 0
    /\ navDir = 0
    /\ navEvents = 0
    /\ navStart = 0
    /\ last = Op("init", 0, "", "", NoList)

\* The state after new Theme(), for every storage content and system signal.
InitTheme ==
    /\ ModalIdle
    /\ RestIdle
    /\ storage \in ThemeInputs
    /\ systemDark \in BOOLEAN
    /\ currentTheme = GetInitialTheme(storage, systemDark)
    /\ appliedTheme = GetEffectiveTheme(currentTheme, systemDark)
    /\ themeEvents = 0
    /\ tlast = TOp("startup", storage, "ok")
    /\ writeFailed = FALSE
    /\ toggleRun = 0
    /\ toggleStart = currentTheme

NextTheme ==
    \/ Startup
    \/ \E writeOk \in BOOLEAN : Toggle(writeOk)
    \/ \E w1 \in BOOLEAN, w2 \in BOOLEAN : ThemeButtonClick(w1, w2)
    \/ \E theme \in ThemeInputs, writeOk \in BOOLEAN : SetTheme(theme, writeOk)
    \/ \E isObject \in BOOLEAN, theme \in ThemeInputs, writeOk \in BOOLEAN :
          ImportSettings(isObject, theme, writeOk)
    \/ \E writeOk \in BOOLEAN : Reset(writeOk)
    \/ SystemPreferenceChange
    \/ \E key \in {"gallery-theme", "other"}, newValue \in ThemeInputs :
          StorageEvent(key, newValue)

SpecTheme == InitTheme /\ [][NextTheme]_vars

---------------------------------------------------------------------------
(* Several tabs of one origin, each running its own Theme over the shared  *)
(* localStorage.  A setItem that changes the stored value queues a storage *)
(* event for every other tab; the events of one tab are delivered in       *)
(* order, at any later time.  Storage writes succeed in this               *)
(* specification.                                                          *)

Tabs == 1..NumTabs

\* The Theme of a tab, as a theme state over the shared storage.
TabState(tab) ==
    [currentTheme |-> tabTheme[tab], appliedTheme |-> tabApplied[tab],
     storage |-> storage, events |-> 0, failed |-> FALSE]

\* The inboxes after tab has run a handler that left the storage at stored:
\* the browser notifies the other tabs when the value changed.
Notify(tab, stored) ==
    IF stored = storage THEN inbox
    ELSE [o \in Tabs |-> IF o = tab THEN inbox[o]
                         ELSE Append(inbox[o], stored)]

\* The end of a handler of tab that left its Theme in t.
FinishTab(tab, t) ==
    /\ \A o \in Tabs : Len(Notify(tab, t.storage)[o]) <= MaxInbox
    /\ tabTheme' = [tabTheme EXCEPT ![tab] = t.currentTheme]
    /\ tabApplied' = [tabApplied EXCEPT ![tab] = t.appliedTheme]
    /\ storage' = t.storage
    /\ inbox' = Notify(tab, t.storage)
    /\ UNCHANGED <<currentTheme, appliedTheme, systemDark, themeEvents, tlast,
                   writeFailed, toggleRun, toggleStart>>
    /\ UNCHANGED <<modalVars, appVars, navVars, last, filterVars, applyVars,
                   wiredVars, renderVars, lateVars>>

\* theme.setTheme(theme) in a tab
TabSetTheme(tab, theme) == FinishTab(tab, ThemeSetTheme(TabState(tab), theme, TRUE))

\* theme.toggle() in a tab
TabToggle(tab) == FinishTab(tab, ThemeToggle(TabState(tab), TRUE))

\* The oldest storage event queued for tab is delivered to its listener.
TabStorageEvent(tab) ==
    /\ inbox[tab] # <<>>
    /\ LET newValue == Head(inbox[tab])
           taken == Truthy(newValue)
       IN  /\ tabTheme' = [tabTheme EXCEPT
                              ![tab] = IF taken THEN newValue ELSE @]
           /\ tabApplied' = [tabApplied EXCEPT
                              ![tab] = IF taken
                                       THEN GetEffectiveTheme(newValue, systemDark)
                                       ELSE @]
    /\ inbox' = [inbox EXCEPT ![tab] = Tail(@)]
    /\ UNCHANGED <<themeVars, modalVars, appVars, navVars, last, filterVars,
                   applyVars, wiredVars, renderVars, lateVars>>

\* Every tab has constructed its Theme from the shared storage.
InitTabs ==
    /\ ModalIdle
    /\ WiredIdle
    /\ LateIdle
    /\ storage \in {Null, "light", "dark", "auto"}
    /\ systemDark \in BOOLEAN
    /\ currentTheme = "light"
    /\ appliedTheme = "light"
    /\ themeEvents = 0
    /\ tlast = TOp("init", Null, "none")
    /\ writeFailed = FALSE
    /\ toggleRun = 0
    /\ toggleStart = "light"
    /\ tabTheme = [tab \in Tabs |-> GetInitialTheme(storage, systemDark)]
    /\ tabApplied = [tab \in Tabs |->
                        GetEffectiveTheme(tabTheme[tab], systemDark)]
    /\ inbox = [tab \in Tabs |-> <<>>]
    /\ searchTerm = <<>>
    /\ selectedCategory = <<>>
    /\ sortBy = "name"
    /\ sortOrder = "asc"
    /\ url = [search |-> <<>>, category |-> <<>>, sort |-> "<null>",
              order |-> "<null>"]
    /\ flast = [op |-> "init", key |-> "", order |-> ""]
    /\ engine = "none"
    /\ data = <<>>
    /\ filtered = <<>>

NextTabs ==
    \/ \E tab \in Tabs, theme \in ThemeInputs : TabSetTheme(tab, theme)
    \/ \E tab \in Tabs : TabToggle(tab)
    \/ \E tab \in Tabs : TabStorageEvent(tab)

SpecTabs == InitTabs /\ [][NextTabs]_vars

---------------------------------------------------------------------------
(* Filters: strings.  A string is a sequence of one-character strings; an  *)
(* absent (undefined / null) string is modelled by the empty one, which    *)
(* every use below treats alike (|| '', ?., filter(Boolean), if (...)).    *)

Undefined == "<undefined>"

Alphabet == <<"a", "b", "c", "d", "e", "r", "t">>
Capitals == <<"A", "B", "C", "D", "E", "R", "T">>
\* white space as String.prototype.trim understands it
Whitespace == {" ", "\t"}

\* one character of toLowerCase()
LowerChar(ch) ==
    IF \E i \in 1..Len(Capitals) : Capitals[i] = ch
    THEN Alphabet[CHOOSE i \in 1..Len(Capitals) : Capitals[i] = ch]
    ELSE ch

\* String.prototype.toLowerCase
ToLowerCase(s) == [i \in 1..Len(s) |-> LowerChar(s[i])]

RECURSIVE TrimStart(_)
TrimStart(s) ==
    IF s # <<>> /\ Head(s) \in Whitespace THEN TrimStart(Tail(s)) ELSE s

RECURSIVE TrimEnd(_)
TrimEnd(s) ==
    IF s # <<>> /\ s[Len(s)] \in Whitespace
    THEN TrimEnd(SubSeq(s, 1, Len(s) - 1))
    ELSE s

\* String.prototype.trim
Trim(s) == TrimEnd(TrimStart(s))

RECURSIVE Pieces(_, _, _)
\* s.split(sep) for a one-character separator: the pieces of s after the
\* piece cur that is being read
Pieces(s, sep, cur) ==
    IF s = <<>> THEN <<cur>>
    ELSE IF Head(s) = sep THEN <<cur>> \o Pieces(Tail(s), sep, <<>>)
    ELSE Pieces(Tail(s), sep, Append(cur, Head(s)))

\* String.prototype.split(' ')
Split(s) == Pieces(s, " ", <<>>)

\* String.prototype.includes
Includes(field, term) ==
    \E i \in 0..(Len(field) - Len(term)) :
        SubSeq(field, i + 1, i + Len(term)) = term

\* The position of a letter in the collation order (0: not a letter)
Rank(ch) ==
    IF \E i \in 1..Len(Alphabet) : Alphabet[i] = ch
    THEN CHOOSE i \in 1..Len(Alphabet) : Alphabet[i] = ch
    ELSE 0

RECURSIVE LocaleCompare(_, _)
\* a.localeCompare(b) for lower-case words: -1, 0 or 1
LocaleCompare(a, b) ==
    IF a = <<>> /\ b = <<>> THEN 0
    ELSE IF a = <<>> THEN -1
    ELSE IF b = <<>> THEN 1
    ELSE IF Rank(Head(a)) < Rank(Head(b)) THEN -1
    ELSE IF Rank(Head(a)) > Rank(Head(b)) THEN 1
    ELSE LocaleCompare(Tail(a), Tail(b))

\* Words of the model
Red == <<"r", "e", "d">>
Car == <<"c", "a", "r">>
Art == <<"a", "r", "t">>

---------------------------------------------------------------------------
(* Filters: the criteria (searchTerm, selectedCategory, sortBy, sortOrder) *)
(* and the query parameters of the page URL.  A URL is the record of its   *)
(* parameters as the query string holds them: search and category          *)
(* form-encoded, sort and order as they are (the values the model gives    *)
(* them need no escaping); an absent parameter is <<>> (search, category)  *)
(* or Null (sort, order).                                                  *)

\* One character as URLSearchParams.toString() writes it
EncodeChar(ch) ==
    IF ch = " " THEN <<"+">>
    ELSE IF ch = "\t" THEN <<"%", "0", "9">>
    ELSE IF ch = "+" THEN <<"%", "2", "B">>
    ELSE IF ch = "%" THEN <<"%", "2", "5">>
    ELSE <<ch>>

RECURSIVE FormEncode(_)
\* params.set(name, value); params.toString(): the value in the query
FormEncode(s) ==
    IF s = <<>> THEN <<>> ELSE EncodeChar(Head(s)) \o FormEncode(Tail(s))

\* The character a %XX escape stands for (<<>>: not an escape of the model)
Unescape(hex) ==
    IF hex = <<"0", "9">> THEN <<"\t">>
    ELSE IF hex = <<"2", "B">> THEN <<"+">>
    ELSE IF hex = <<"2", "5">> THEN <<"%">>
    ELSE <<>>

RECURSIVE FormDecode(_)
\* new URLSearchParams(query).get(name): the value read from the query
FormDecode(s) ==
    IF s = <<>> THEN <<>>
    ELSE IF Head(s) = "+" THEN <<" ">> \o FormDecode(Tail(s))
    ELSE IF Head(s) = "%" /\ Len(s) >= 3 /\ Unescape(SubSeq(s, 2, 3)) # <<>>
         THEN Unescape(SubSeq(s, 2, 3)) \o FormDecode(SubSeq(s, 4, Len(s)))
    ELSE <<Head(s)>> \o FormDecode(Tail(s))

\* The Filters fields as a record c.
FState ==
    [searchTerm |-> searchTerm, selectedCategory |-> selectedCategory,
     sortBy |-> sortBy, sortOrder |-> sortOrder]

\* The fields the constructor assigns
DefaultFilters ==
    [searchTerm |-> <<>>, selectedCategory |-> <<>>,
     sortBy |-> "name", sortOrder |-> "asc"]

\* Filters.setSearch(term)
FSetSearch(c, term) == [c EXCEPT !.searchTerm = Trim(ToLowerCase(term))]

\* Filters.setCategory(category)
FSetCategory(c, category) == [c EXCEPT !.selectedCategory = category]

FSetSortKeepsOrder(c, key, order) ==
    [c EXCEPT !.sortBy = IF Truthy(key) THEN key ELSE "name",
              !.sortOrder = IF order = Undefined THEN c.sortOrder ELSE order]
\* Filters.setSort(sortBy, order = 'asc')
FSetSort(c, key, order) ==
    [c EXCEPT !.sortBy = IF Truthy(key) THEN key ELSE "name",
              !.sortOrder = IF order = Undefined THEN "asc" ELSE order]

\* the assignments of Filters.clearSearch()
FClearSearch(c) == [c EXCEPT !.searchTerm = <<>>]

\* the assignments of Filters.clearAll()
FClearAll(c) == DefaultFilters

\* no state object: setState(null), setState(undefined)
NoState == [none |-> TRUE]

\* Filters.setState(state)
FSetState(c, st) ==
    IF st = NoState THEN c
    ELSE [searchTerm |-> st.searchTerm,
          selectedCategory |-> st.selectedCategory,
          sortBy |-> IF Truthy(st.sortBy) THEN st.sortBy ELSE "name",
          sortOrder |-> IF Truthy(st.sortOrder) THEN st.sortOrder ELSE "asc"]

\* Filters.updateURL(): the parameters written for the criteria c
UpdateURL(c) ==
    [search |-> FormEncode(c.searchTerm),
     category |-> FormEncode(c.selectedCategory),
     sort |-> IF c.sortBy # "name" THEN c.sortBy ELSE Null,
     order |-> IF c.sortOrder # "asc" THEN c.sortOrder ELSE Null]

\* Filters.restoreFiltersFromURL(), from the parameters u
RestoreFiltersFromURL(c, u) ==
    LET search == FormDecode(u.search)
        category == FormDecode(u.category)
        c1 == IF search # <<>> THEN FSetSearch(c, search) ELSE c
        c2 == IF category # <<>> THEN FSetCategory(c1, category) ELSE c1
    IN  IF Truthy(u.sort)
        THEN FSetSort(c2, u.sort, IF Truthy(u.order) THEN u.order ELSE "asc")
        ELSE c2

\* Inputs
SearchInputs ==
    {<<>>, <<" ", "R", "e", "d", " ">>, Red \o <<" ">> \o Car,
     Red \o <<"\t">> \o Car}
CategoryInputs == {<<>>, Car}
SortKeyInputs == {"name", "date", "category", "size", Null}
OrderInputs == {"desc", "up", Undefined}
StateInputs ==
    {NoState} \cup
    [searchTerm : {<<>>, <<"R", "e", "d">>}, selectedCategory : CategoryInputs,
     sortBy : {"date", "size", Null}, sortOrder : {"desc", Null}]
\* URLs the page may be opened with
Urls ==
    [search : {<<>>, <<"R", "e", "d", "+", "c", "a", "r">>},
     category : CategoryInputs,
     sort : {Null, "date", "size"}, order : {Null, "desc"}]

FOp(op, key, order) == [op |-> op, key |-> key, order |-> order]

\* The end of a Filters handler: the criteria are c, the URL parameters u.
FinishFilters(c, u, op) ==
    /\ searchTerm' = c.searchTerm
    /\ selectedCategory' = c.selectedCategory
    /\ sortBy' = c.sortBy
    /\ sortOrder' = c.sortOrder
    /\ url' = u
    /\ flast' = op
    /\ UNCHANGED <<modalVars, appVars, navVars, last, themeVars, tabVars,
                   applyVars, wiredVars, renderVars, lateVars>>

\* filters.setSearch(term), called directly
SetSearch(term) ==
    FinishFilters(FSetSearch(FState, term), url, FOp("setSearch", "", ""))

\* filters.setCategory(category), called directly
SetCategory(category) ==
    FinishFilters(FSetCategory(FState, category), url,
                  FOp("setCategory", "", ""))

\* filters.setSort(sortBy, order), called directly
SetSort(key, order) ==
    FinishFilters(FSetSort(FState, key, order), url, FOp("setSort", key, order))

\* filters.setState(state)
SetState(st) ==
    FinishFilters(FSetState(FState, st), url,
                  IF st = NoState THEN FOp("setState", "", "")
                  ELSE FOp("setState", st.sortBy, st.sortOrder))

\* filters.clearSearch(): a direct call, Escape in the search input
ClearSearch ==
    LET c == FClearSearch(FState)
    IN  FinishFilters(c, UpdateURL(c), FOp("clearSearch", "", ""))

\* filters.clearAll()
ClearAll ==
    LET c == FClearAll(FState)
    IN  FinishFilters(c, UpdateURL(c), FOp("clearAll", "", ""))

\* The debounced 'input' listener of the search input runs with value.
OnSearchInput(value) ==
    LET c == FSetSearch(FState, value)
    IN  FinishFilters(c, UpdateURL(c), FOp("searchInput", "", ""))

\* The 'change' listener of the category select
OnCategoryChange(value) ==
    LET c == FSetCategory(FState, value)
    IN  FinishFilters(c, UpdateURL(c), FOp("categoryChange", "", ""))

\* The 'change' listener of the sort select: setSort(e.target.value)
OnSortChange(value) ==
    LET c == FSetSort(FState, value, Undefined)
    IN  FinishFilters(c, UpdateURL(c), FOp("sortChange", value, Undefined))

\* The page is loaded again at its current URL: new Filters(data).
LoadPage ==
    FinishFilters(RestoreFiltersFromURL(DefaultFilters, url), url,
                  FOp("load", url.sort, url.order))

ApplyIdle ==
    /\ engine = "none"
    /\ data = <<>>
    /\ filtered = <<>>

\* new Filters(data) on a page opened at any of the URLs
InitFilters ==
    /\ ModalIdle
    /\ WiredIdle
    /\ LateIdle
    /\ ThemeIdle
    /\ tabTheme = <<>>
    /\ tabApplied = <<>>
    /\ inbox = <<>>
    /\ ApplyIdle
    /\ url \in Urls
    /\ LET c == RestoreFiltersFromURL(DefaultFilters, url)
       IN  /\ searchTerm = c.searchTerm
           /\ selectedCategory = c.selectedCategory
           /\ sortBy = c.sortBy
           /\ sortOrder = c.sortOrder
    /\ flast = FOp("load", url.sort, url.order)

NextFilters ==
    \/ \E term \in SearchInputs : SetSearch(term)
    \/ \E category \in CategoryInputs : SetCategory(category)
    \/ \E key \in SortKeyInputs, order \in OrderInputs : SetSort(key, order)
    \/ \E st \in StateInputs : SetState(st)
    \/ ClearSearch
    \/ ClearAll
    \/ \E value \in SearchInputs : OnSearchInput(value)
    \/ \E value \in CategoryInputs : OnCategoryChange(value)
    \/ \E value \in {"name", "date", "category"} : OnSortChange(value)
    \/ LoadPage

SpecFilters == InitFilters /\ [][NextFilters]_vars

---------------------------------------------------------------------------
(* Filters.apply.  Images are ids of the Catalog; an image list is a       *)
(* sequence of distinct ids.                                               *)

\* A category that gallery.json gives as a number (7): not a string, so
\* it has no toLowerCase
NotAString == <<"<number>">>

\* The images of the model: upper and lower case names, names and
\* categories that tie, a word inside a longer word, words that only a tag
\* holds, dates that are valid, equal, unparsable ("soon") and missing,
\* and an image whose category is a number.
Catalog ==
    << [filename |-> <<"B">>, description |-> Red, category |-> Car,
        tags |-> <<>>, dateAdded |-> "2024-01-02"],
       [filename |-> <<"a">>, description |-> <<"R", "E", "D">>,
        category |-> Art, tags |-> <<Car>>, dateAdded |-> "2024-01-01"],
       [filename |-> <<"A">>, description |-> <<>>, category |-> Car,
        tags |-> <<>>, dateAdded |-> "soon"],
       [filename |-> <<"c">>, description |-> Red \o Car, category |-> Art,
        tags |-> <<>>, dateAdded |-> "2024-01-01"],
       [filename |-> <<"b">>, description |-> <<>>, category |-> Art,
        tags |-> <<<<"R", "e", "d">>, Art>>, dateAdded |-> ""],
       [filename |-> <<"d">>, description |-> <<>>, category |-> NotAString,
        tags |-> <<>>, dateAdded |-> "2024-01-02"] >>

\* The images whose fields are all of the types Filters expects
WellTyped == {id \in DOMAIN Catalog : Catalog[id].category # NotAString}

RECURSIVE ListsOver(_, _)
\* The sequences of at most n distinct elements of ids
ListsOver(ids, n) ==
    IF n = 0 THEN {<<>>}
    ELSE {<<>>} \cup UNION {{<<i>> \o r : r \in ListsOver(ids \ {i}, n - 1)} :
                              i \in ids}

ImageLists == ListsOver(WellTyped, MaxImages)

\* A number that may be NaN
Num(v) == [nan |-> FALSE, v |-> v]
NaN == [nan |-> TRUE, v |-> 0]
\* unary minus
Negate(x) == IF x.nan THEN x ELSE Num(-x.v)

\* new Date(d || 0).getTime() in days since the epoch: a missing date is
\* the epoch, a string Date cannot parse gives an Invalid Date (NaN)
DateTime(d) ==
    IF d = "" THEN Num(0)
    ELSE IF d = "2024-01-01" THEN Num(19723)
    ELSE IF d = "2024-01-02" THEN Num(19724)
    ELSE NaN

\* Filters.matchesSearchTerm(image, term)
MatchesSearchTerm(image, term) ==
    LET searchableFields ==
            SelectSeq(<<ToLowerCase(image.filename),
                        ToLowerCase(image.description),
                        ToLowerCase(image.category)>>
                      \o [i \in 1..Len(image.tags) |->
                             ToLowerCase(image.tags[i])],
                      LAMBDA field : field # <<>>)
    IN  \E i \in 1..Len(searchableFields) :
            Includes(searchableFields[i], term)

\* Filters.applySearchFilter(images)
ApplySearchFilter(c, imgs) ==
    LET searchTerms == SelectSeq(Split(c.searchTerm), LAMBDA term : Len(term) > 0)
    IN  SelectSeq(imgs, LAMBDA id :
                    \A k \in 1..Len(searchTerms) :
                        MatchesSearchTerm(Catalog[id], searchTerms[k]))

\* Filters.applyCategoryFilter(images)
ApplyCategoryFilter(c, imgs) ==
    SelectSeq(imgs, LAMBDA id : Catalog[id].category = c.selectedCategory)

\* Filters.compareStrings(a, b)
CompareStrings(a, b) == Num(LocaleCompare(ToLowerCase(a), ToLowerCase(b)))

\* Filters.compareDates(a, b): dateA - dateB
CompareDates(a, b) ==
    IF DateTime(a).nan \/ DateTime(b).nan THEN NaN
    ELSE Num(DateTime(a).v - DateTime(b).v)

\* The comparator applySorting hands to Array.prototype.sort
Comparator(c, a, b) ==
    LET comparison ==
            IF c.sortBy = "name"
            THEN CompareStrings(Catalog[a].filename, Catalog[b].filename)
            ELSE IF c.sortBy = "date"
            THEN CompareDates(Catalog[a].dateAdded, Catalog[b].dateAdded)
            ELSE IF c.sortBy = "category"
            THEN CompareStrings(Catalog[a].category, Catalog[b].category)
            ELSE Num(0)
    IN  IF c.sortOrder = "desc" THEN Negate(comparison) ELSE comparison

\* The comparator as Array.prototype.sort reads it: NaN counts as +0.
SortCompare(c, a, b) ==
    IF Comparator(c, a, b).nan THEN 0 ELSE Comparator(c, a, b).v

Reverse(s) == [i \in 1..Len(s) |-> s[Len(s) + 1 - i]]

(* Array.prototype.sort.  With a comparator that is not a consistent       *)
(* ordering (NaN from an Invalid Date) the result depends on the engine's  *)
(* algorithm, so the engine is an input.  "timsort": V8 - for a list this  *)
(* short, the leading run is found (and reversed when strictly             *)
(* descending), then the rest is inserted by binary search.  "insertion":  *)
(* the straight insertion sort that merge-sort engines use on short lists. *)
Engines == {"timsort", "insertion"}

RECURSIVE CountRun(_, _, _, _)
\* the length of the leading run of s, which is n long so far
CountRun(c, s, descending, n) ==
    IF n = Len(s) THEN n
    ELSE LET order == SortCompare(c, s[n + 1], s[n])
         IN  IF (descending /\ order >= 0) \/ (~descending /\ order < 0)
             THEN n
             ELSE CountRun(c, s, descending, n + 1)

RECURSIVE BinarySearch(_, _, _, _, _)
\* where pivot goes among s[left .. right-1] (0-based), after its equals
BinarySearch(c, s, pivot, left, right) ==
    IF left >= right THEN left
    ELSE LET mid == left + ((right - left) \div 2)
         IN  IF SortCompare(c, pivot, s[mid + 1]) < 0
             THEN BinarySearch(c, s, pivot, left, mid)
             ELSE BinarySearch(c, s, pivot, mid + 1, right)

RECURSIVE BinaryInsertionSort(_, _, _)
\* s, whose first start elements are sorted, with the others inserted
BinaryInsertionSort(c, s, start) ==
    IF start >= Len(s) THEN s
    ELSE LET pivot == s[start + 1]
             pos == BinarySearch(c, s, pivot, 0, start)
         IN  BinaryInsertionSort(c,
                 SubSeq(s, 1, pos) \o <<pivot>> \o SubSeq(s, pos + 1, start)
                     \o SubSeq(s, start + 2, Len(s)),
                 start + 1)

TimSort(c, s) ==
    IF Len(s) < 2 THEN s
    ELSE LET descending == SortCompare(c, s[2], s[1]) < 0
             run == CountRun(c, s, descending, 2)
             made == IF descending
                     THEN Reverse(SubSeq(s, 1, run)) \o SubSeq(s, run + 1, Len(s))
                     ELSE s
         IN  BinaryInsertionSort(c, made, run)

RECURSIVE InsertPos(_, _, _, _)
\* the number of elements of s[1 .. j] that stay before item
InsertPos(c, s, item, j) ==
    IF j = 0 THEN 0
    ELSE IF SortCompare(c, s[j], item) <= 0 THEN j
    ELSE InsertPos(c, s, item, j - 1)

RECURSIVE InsertionSort(_, _, _)
\* s, whose first i - 1 elements are sorted, with the others inserted
InsertionSort(c, s, i) ==
    IF i > Len(s) THEN s
    ELSE LET item == s[i]
             pos == InsertPos(c, s, item, i - 1)
         IN  InsertionSort(c,
                 SubSeq(s, 1, pos) \o <<item>> \o SubSeq(s, pos + 1, i - 1)
                     \o SubSeq(s, i + 1, Len(s)),
                 i + 1)

\* images.sort(comparator) in engine e
ArraySort(c, e, imgs) ==
    IF e = "timsort" THEN TimSort(c, imgs) ELSE InsertionSort(c, imgs, 2)

ApplySortingReverseForDesc(c, e, imgs) ==
    LET ascending == ArraySort([c EXCEPT !.sortOrder = "asc"], e, imgs)
    IN  IF c.sortOrder = "desc" THEN Reverse(ascending) ELSE ascending
\* Filters.applySorting(images)
ApplySorting(c, e, imgs) == ArraySort(c, e, imgs)

\* Filters.apply(images), for an array of images
Apply(c, e, imgs) ==
    LET searched == IF c.searchTerm # <<>> THEN ApplySearchFilter(c, imgs)
                    ELSE imgs
        inCategory == IF c.selectedCategory # <<>>
                      THEN ApplyCategoryFilter(c, searched)
                      ELSE searched
    IN  ApplySorting(c, e, inCategory)

\* toLowerCase is called on the category of the image and it has none
\* (matchesSearchTerm: image.category?.toLowerCase(); compareStrings:
\* (a || '').toLowerCase())
HasNoToLowerCase(id) == Catalog[id].category = NotAString

\* Filters.apply(images) raises a TypeError: the search filter looks at
\* every image as soon as there is a term; the category filter compares
\* with === and drops an image whose category is no string; the
\* comparator of the category sort is called on every image of a list of
\* two or more.
ApplyRaises(c, imgs) ==
    LET illTyped == \E i \in 1..Len(imgs) : HasNoToLowerCase(imgs[i])
        searchTerms == SelectSeq(Split(c.searchTerm),
                                 LAMBDA term : Len(term) > 0)
        searching == c.searchTerm # <<>> /\ searchTerms # <<>>
    IN  \/ searching /\ illTyped
        \/ /\ ~searching
           /\ c.selectedCategory = <<>>
           /\ c.sortBy = "category"
           /\ illTyped
           /\ Len(imgs) >= 2

\* Criteria apply is tried with: a term of two words, one with a tab
\* between the words, one with two spaces; an unknown sort key and order.
ApplyTerms ==
    {<<>>, Red, Red \o <<" ">> \o Car, Red \o <<"\t">> \o Car,
     Car \o <<" ", " ">> \o Red}
ApplyCategories == {<<>>, Car, Art}
ApplySortKeys == {"name", "date", "category", "size"}
ApplyOrders == {"asc", "desc", "up"}

\* A Filters with any of the criteria, an image list, an engine.
InitApply ==
    /\ ModalIdle
    /\ WiredIdle
    /\ LateIdle
    /\ ThemeIdle
    /\ tabTheme = <<>>
    /\ tabApplied = <<>>
    /\ inbox = <<>>
    /\ url = [search |-> <<>>, category |-> <<>>, sort |-> Null, order |-> Null]
    /\ flast = FOp("init", "", "")
    /\ searchTerm \in ApplyTerms
    /\ selectedCategory \in ApplyCategories
    /\ sortBy \in ApplySortKeys
    /\ sortOrder \in ApplyOrders
    /\ engine \in Engines
    /\ data \in ImageLists
    /\ filtered = <<>>

\* filters.apply(data)
ApplyCall ==
    /\ filtered' = Apply(FState, engine, data)
    /\ flast' = FOp("apply", "", "")
    /\ UNCHANGED <<searchTerm, selectedCategory, sortBy, sortOrder, url,
                   engine, data>>
    /\ UNCHANGED <<modalVars, appVars, navVars, last, themeVars, tabVars,
                   wiredVars, renderVars, lateVars>>

NextApply == ApplyCall

SpecApply == InitApply /\ [][NextApply]_vars

---------------------------------------------------------------------------
(* The application after GalleryApp.init(): the data loaded (or refused),  *)
(* the components constructed, the listeners of Filters and of GalleryApp  *)
(* attached to the same controls, the gallery rendered.  Image lists are   *)
(* lists of Catalog ids.                                                   *)

\* Longest burst of keystrokes inside one quiet window
MaxBurst == 3
\* Most timeouts pending at once
MaxTimers == 4

\* What gallery.json held: a well-formed object, one with no images field,
\* one whose images is not an array, one with images and no categories.
DataKinds == {"ok", "noImages", "imagesNotArray", "noCategories"}

\* The image arrays a well-formed gallery.json is tried with
AppMasters == {<<>>, <<3, 1, 2>>}

\* An image array that holds the image whose category is a number
IllTypedMasters == {<<3, 6, 1>>}

\* The texts typed into the search input
AppSearchInputs == {<<>>, Red, Car}

\* The values of the category select and of the sort select
AppCategoryInputs == {<<>>, Car}
AppSortInputs == {"name", "date"}

\* Where building a card raises in a render: nowhere (0), or at the
\* second card (an image whose tags is a string has no tags.map).
FailPoints == {0, 2}

\* loadData(): the spread of a missing images raises, the validation
\* refuses an images that is not an array
LoadDataThrows(kind) == kind \in {"noImages", "imagesNotArray"}

FiltersConstructorAccepts(kind) == FALSE
\* new Filters(data): !data || !data.images || !data.categories
FiltersConstructorThrows(kind) == kind \in {"noImages", "noCategories"}

\* init() reaches its catch
InitFails(kind) == LoadDataThrows(kind) \/ FiltersConstructorThrows(kind)

RenderWithoutFragment(list, failAt) ==
    IF list = <<>> THEN [kind |-> "empty", cards |-> <<>>]
    ELSE IF failAt \in 1..Len(list)
         THEN [kind |-> "cards", cards |-> SubSeq(list, 1, failAt - 1)]
    ELSE [kind |-> "cards", cards |-> list]
\* Gallery.render() run from its guard to its finally: the content of the
\* container for this.images = list
Render(list, failAt) ==
    IF list = <<>> THEN [kind |-> "empty", cards |-> <<>>]
    ELSE IF failAt \in 1..Len(list) THEN [kind |-> "error", cards |-> <<>>]
    ELSE [kind |-> "cards", cards |-> list]

ShowErrorAsEmptyState == [kind |-> "empty", cards |-> <<>>]
\* GalleryApp.showError(message): the content of the container
ShowError == [kind |-> "failed", cards |-> <<>>]

ApplyArgumentSortedInPlace(c, e, imgs) ==
    IF c.searchTerm = <<>> /\ c.selectedCategory = <<>>
    THEN ApplySorting(c, e, imgs) ELSE imgs
\* The array handed to Filters.apply, after the call: apply filters and
\* sorts its own copy ([...images])
ApplyArgumentAfter(c, e, imgs) == imgs

ModalRefreshedByUpdate(m, list) ==
    [m EXCEPT !.images = list,
              !.currentIndex = ClampIndex(m.currentIndex, Len(list))]
\* The modal after GalleryApp.updateGallery() rendered list: updateGallery
\* does not call the modal
ModalAfterUpdateGallery(m, list) == m

ImageClickListMaster(cur, all) == all
\* The list GalleryApp's imageClick listener opens the modal with:
\* this.currentImages (all is this.data.images)
ImageClickList(cur, all) == cur

RECURSIVE ClearTimeout(_, _)
\* clearTimeout(id): the pending timeouts without the one named
ClearTimeout(pending, name) ==
    IF pending = <<>> THEN <<>>
    ELSE IF Head(pending) = name THEN ClearTimeout(Tail(pending), name)
    ELSE <<Head(pending)>> \o ClearTimeout(Tail(pending), name)

ScheduleWithoutClear(pending, name) == Append(pending, name)
\* clearTimeout(timeout); timeout = setTimeout(later, 300): the listener's
\* earlier timeout is cancelled, the new one fires after those pending
ScheduleDebounced(pending, name) == Append(ClearTimeout(pending, name), name)

SetCriteria(c) ==
    /\ searchTerm' = c.searchTerm
    /\ selectedCategory' = c.selectedCategory
    /\ sortBy' = c.sortBy
    /\ sortOrder' = c.sortOrder

\* What no application handler assigns
AppFrame ==
    UNCHANGED <<navVars, themeVars, tabVars, flast, renderVars, engine,
                dataKind, master, filtersBuilt, listening, loading,
                viewVars, relVars, lazyVars>>

\* GalleryApp.updateGallery() with the criteria c: the try block, or its
\* catch when filters.apply raises
UpdateGallery(c, failAt) ==
    IF ~filtersBuilt
    THEN UNCHANGED <<data, filtered, appVars, container, raised, modalVars>>
    ELSE IF ApplyRaises(c, data)
    THEN /\ container' = ShowError
         /\ raised' = TRUE
         /\ UNCHANGED <<data, filtered, appVars, modalVars>>
    ELSE \E filteredImages \in {Apply(c, engine, data)} :
             /\ data' = ApplyArgumentAfter(c, engine, data)
             /\ filtered' = filteredImages
             /\ currentImages' = filteredImages
             /\ galleryImages' = filteredImages
             /\ container' = Render(filteredImages, failAt)
             /\ raised' = FALSE
             /\ SetModal(ModalAfterUpdateGallery(ModalState, filteredImages))

\* init() has run: loadData, initializeComponents (the Gallery renders the
\* loaded list, then Filters is constructed), setupEventListeners,
\* updateGallery, showLoading(false); or its catch: showError,
\* showLoading(false).
InitAppOf(kinds, masters) ==
    /\ isOpen = FALSE
    /\ images = <<>>
    /\ currentIndex = 0
    /\ bodyOverflow = ""
    /\ depth = 0
    /\ navDir = 0
    /\ navEvents = 0
    /\ navStart = 0
    /\ last = Op("init", 0, "", "", NoList)
    /\ ThemeIdle
    /\ tabTheme = <<>>
    /\ tabApplied = <<>>
    /\ inbox = <<>>
    /\ searchTerm = <<>>
    /\ selectedCategory = <<>>
    /\ sortBy = "name"
    /\ sortOrder = "asc"
    /\ url = [search |-> <<>>, category |-> <<>>, sort |-> Null, order |-> Null]
    /\ flast = FOp("init", "", "")
    /\ engine \in Engines
    /\ dataKind \in kinds
    /\ master \in (IF LoadDataThrows(dataKind) THEN {<<>>} ELSE masters)
    /\ data = master
    /\ filtersBuilt = ~InitFails(dataKind)
    /\ listening = ~InitFails(dataKind)
    /\ loading = FALSE
    /\ filtered = IF InitFails(dataKind) THEN <<>>
                  ELSE Apply(DefaultFilters, engine, master)
    /\ currentImages = IF InitFails(dataKind) THEN master ELSE filtered
    /\ galleryImages = IF LoadDataThrows(dataKind) THEN <<>> ELSE currentImages
    /\ container \in (IF InitFails(dataKind) THEN {ShowError}
                      ELSE {Render(filtered, failAt) : failAt \in FailPoints})
    /\ inputValue = <<>>
    /\ timers = <<>>
    /\ burstKeys = 0
    /\ burstRenders = 0
    /\ activated = -1
    /\ isRendering = FALSE
    /\ renderStage = "idle"
    /\ renderList = <<>>
    /\ renderOf = <<>>
    /\ dropped = FALSE
    /\ LateIdle

\* A page whose gallery.json is any of DataKinds, its images well typed
InitApp == InitAppOf(DataKinds, AppMasters)

\* A page whose gallery.json is well formed and holds the image whose
\* category is a number
InitAppIllTyped == InitAppOf({"ok"}, IllTypedMasters)

\* The category select changes: Filters' listener (setCategory, updateURL,
\* triggerFilterChange), then GalleryApp's (setCategory, updateGallery).
AppCategoryChange(value, failAt) ==
    /\ activated' = -1
    /\ IF listening
       THEN LET c1 == FSetCategory(FState, value)
                c2 == FSetCategory(c1, value)
            IN  /\ SetCriteria(c2)
                /\ url' = UpdateURL(c1)
                /\ UpdateGallery(c2, failAt)
       ELSE UNCHANGED <<searchTerm, selectedCategory, sortBy, sortOrder, url,
                        data, filtered, appVars, container, raised, modalVars>>
    /\ UNCHANGED <<inputValue, timers, burstKeys, burstRenders, last>>
    /\ AppFrame

\* The sort select changes: Filters' listener (setSort(value), updateURL,
\* triggerFilterChange), then GalleryApp's (setSort(value), updateGallery).
AppSortChange(value, failAt) ==
    /\ activated' = -1
    /\ IF listening
       THEN LET c1 == FSetSort(FState, value, Undefined)
                c2 == FSetSort(c1, value, Undefined)
            IN  /\ SetCriteria(c2)
                /\ url' = UpdateURL(c1)
                /\ UpdateGallery(c2, failAt)
       ELSE UNCHANGED <<searchTerm, selectedCategory, sortBy, sortOrder, url,
                        data, filtered, appVars, container, raised, modalVars>>
    /\ UNCHANGED <<inputValue, timers, burstKeys, burstRenders, last>>
    /\ AppFrame

\* A keystroke leaves value in the search input: the debounced listener of
\* Filters, then GalleryApp's listener, each cancels its pending timeout
\* and sets a new one.  A burst is the keystrokes made while GalleryApp's
\* timeout is pending.
SearchKeystroke(value) ==
    /\ value # inputValue
    /\ inputValue' = value
    /\ activated' = -1
    /\ IF listening
       THEN LET inBurst == \E i \in 1..Len(timers) : timers[i] = "app"
            IN  /\ inBurst => burstKeys < MaxBurst
                /\ Len(timers) + 2 <= MaxTimers
                /\ timers' = ScheduleDebounced(
                                 ScheduleDebounced(timers, "filter"), "app")
                /\ burstKeys' = IF inBurst THEN burstKeys + 1 ELSE 1
                /\ burstRenders' = IF inBurst THEN burstRenders ELSE 0
       ELSE UNCHANGED <<timers, burstKeys, burstRenders>>
    /\ UNCHANGED <<searchTerm, selectedCategory, sortBy, sortOrder, url, data,
                   filtered, appVars, container, raised, modalVars, last>>
    /\ AppFrame

\* The timeout of Filters' debounced listener fires: setSearch of the
\* input's text, updateURL, triggerFilterChange.
FilterTimerFire ==
    /\ timers # <<>>
    /\ Head(timers) = "filter"
    /\ timers' = Tail(timers)
    /\ activated' = -1
    /\ LET c == FSetSearch(FState, inputValue)
       IN  /\ SetCriteria(c)
           /\ url' = UpdateURL(c)
    /\ UNCHANGED <<data, filtered, appVars, container, raised, modalVars, inputValue,
                   burstKeys, burstRenders, last>>
    /\ AppFrame

\* The timeout of GalleryApp's listener fires: setSearch of the input's
\* text, updateGallery.
AppTimerFire(failAt) ==
    /\ timers # <<>>
    /\ Head(timers) = "app"
    /\ timers' = Tail(timers)
    /\ activated' = -1
    /\ burstRenders' = burstRenders + 1
    /\ LET c == FSetSearch(FState, inputValue)
       IN  /\ SetCriteria(c)
           /\ UpdateGallery(c, failAt)
    /\ UNCHANGED <<url, inputValue, burstKeys, last>>
    /\ AppFrame

\* Escape is pressed in the search input: Filters' keydown listener runs
\* clearSearch(); the keydown reaches the document, where Modal's listener
\* handles it and GalleryApp's returns for a text input.
SearchEscape ==
    /\ activated' = -1
    /\ IF listening
       THEN LET c == FClearSearch(FState)
            IN  /\ SetCriteria(c)
                /\ url' = UpdateURL(c)
                /\ inputValue' = <<>>
       ELSE UNCHANGED <<searchTerm, selectedCategory, sortBy, sortOrder, url,
                        inputValue>>
    /\ SetModal(HandleKeyboardShortcuts(
                    HandleKeyboard(ModalState, "Escape", FALSE, "INPUT"),
                    "Escape", "INPUT"))
    /\ UNCHANGED <<data, filtered, appVars, container, raised, timers, burstKeys,
                   burstRenders, last>>
    /\ AppFrame

\* A rendered card is activated (the open modal covers the cards):
\* Gallery.openImage(index) publishes imageClick; Modal's listener opens
\* with detail.images, then GalleryApp's with the list of its own.
AppCardActivate(index) ==
    /\ ~isOpen
    /\ container.kind = "cards"
    /\ index \in 0..(Len(container.cards) - 1)
    /\ LET m1 == ModalOpen(ModalState, index, galleryImages)
           m2 == ModalOpen(m1, index, ImageClickList(currentImages, data))
       IN  SetModal(m2)
    /\ activated' = index
    /\ UNCHANGED <<searchTerm, selectedCategory, sortBy, sortOrder, url, data,
                   filtered, appVars, container, raised, inputValue, timers,
                   burstKeys, burstRenders, last>>
    /\ AppFrame

\* The open modal is closed by its close control
AppModalClose ==
    /\ isOpen
    /\ SetModal(ModalClose(ModalState))
    /\ activated' = -1
    /\ UNCHANGED <<searchTerm, selectedCategory, sortBy, sortOrder, url, data,
                   filtered, appVars, container, raised, inputValue, timers,
                   burstKeys, burstRenders, last>>
    /\ AppFrame

NextApp ==
    \/ \E value \in AppCategoryInputs, failAt \in FailPoints :
          AppCategoryChange(value, failAt)
    \/ \E value \in AppSortInputs, failAt \in FailPoints :
          AppSortChange(value, failAt)
    \/ \E value \in AppSearchInputs : SearchKeystroke(value)
    \/ FilterTimerFire
    \/ \E failAt \in FailPoints : AppTimerFire(failAt)
    \/ SearchEscape
    \/ \E index \in 0..(MaxImages - 1) : AppCardActivate(index)
    \/ AppModalClose

SpecApp == InitApp /\ [][NextApp]_vars

\* The same page over a gallery.json with an ill-typed image
SpecAppIllTyped == InitAppIllTyped /\ [][NextApp]_vars

\* A timeout expires: what its callback's run does to the timers (and to
\* the count of renders), whatever else it does.  The steps of NextApp
\* that satisfy FilterTimerExpires are the FilterTimerFire steps, those
\* that satisfy AppTimerExpires the AppTimerFire steps, and each is enabled
\* exactly when they are.
FilterTimerExpires ==
    /\ timers # <<>>
    /\ Head(timers) = "filter"
    /\ timers' = Tail(timers)

AppTimerExpires ==
    /\ timers # <<>>
    /\ Head(timers) = "app"
    /\ timers' = Tail(timers)
    /\ burstRenders' = burstRenders + 1

\* The timers of the page fire: a pending timeout whose turn has come runs.
SpecAppLive ==
    /\ SpecApp
    /\ WF_timers(FilterTimerExpires)
    /\ WF_timers(AppTimerExpires)

---------------------------------------------------------------------------
(* The Gallery component alone.  render() is taken in stages, divided      *)
(* where it calls out of its own code (the DOM calls that clear the        *)
(* container, build the cards and attach them), so that a call of          *)
(* update() made from inside such a call arrives while isRendering is set. *)

\* What no Gallery step assigns
GalleryFrame ==
    UNCHANGED <<modalVars, currentImages, navVars, last, themeVars, tabVars,
                filterVars, applyVars, dataKind, master, filtersBuilt,
                listening, loading, inputValue, timers, burstKeys,
                burstRenders, activated, raised, relVars, lazyVars>>

\* A step of the gallery that is no toggleView() call
NoToggle ==
    /\ viewEvents' = <<>>
    /\ toggled' = FALSE
    /\ UNCHANGED viewMode

\* new Gallery(images): the constructor has rendered the list
InitGallery ==
    /\ isOpen = FALSE
    /\ images = <<>>
    /\ currentIndex = 0
    /\ bodyOverflow = ""
    /\ currentImages = <<>>
    /\ depth = 0
    /\ navDir = 0
    /\ navEvents = 0
    /\ navStart = 0
    /\ last = Op("init", 0, "", "", NoList)
    /\ ThemeIdle
    /\ tabTheme = <<>>
    /\ tabApplied = <<>>
    /\ inbox = <<>>
    /\ searchTerm = <<>>
    /\ selectedCategory = <<>>
    /\ sortBy = "name"
    /\ sortOrder = "asc"
    /\ url = [search |-> <<>>, category |-> <<>>, sort |-> Null, order |-> Null]
    /\ flast = FOp("init", "", "")
    /\ ApplyIdle
    /\ dataKind = "ok"
    /\ master = <<>>
    /\ filtersBuilt = FALSE
    /\ listening = FALSE
    /\ loading = FALSE
    /\ inputValue = <<>>
    /\ timers = <<>>
    /\ burstKeys = 0
    /\ burstRenders = 0
    /\ activated = -1
    /\ galleryImages \in Lists
    /\ container \in {Render(galleryImages, failAt) : failAt \in FailPoints}
    /\ isRendering = FALSE
    /\ renderStage = "idle"
    /\ renderList = <<>>
    /\ renderOf = <<>>
    /\ dropped = FALSE
    /\ LateIdle

\* gallery.update(list) with no render running: this.images = list, and
\* render() passes its guard, sets isRendering and clears the container.
GalleryUpdate(list) ==
    /\ ~isRendering
    /\ galleryImages' = list
    /\ isRendering' = TRUE
    /\ container' = [kind |-> "none", cards |-> <<>>]
    /\ renderStage' = "cleared"
    /\ renderList' = <<>>
    /\ renderOf' = list
    /\ dropped' = FALSE
    /\ NoToggle
    /\ GalleryFrame

\* The running render() reads this.images: an empty list gives the empty
\* state and the render ends; otherwise forEach starts on that array.
GalleryRenderRead ==
    /\ renderStage = "cleared"
    /\ IF galleryImages = <<>>
       THEN /\ container' = Render(galleryImages, 0)
            /\ isRendering' = FALSE
            /\ renderStage' = "idle"
            /\ renderList' = <<>>
       ELSE /\ renderList' = galleryImages
            /\ renderStage' = "building"
            /\ UNCHANGED <<container, isRendering>>
    /\ UNCHANGED <<galleryImages, renderOf, dropped>>
    /\ NoToggle
    /\ GalleryFrame

GalleryRenderFinishKeepsFlagOnError(failAt) ==
    /\ renderStage = "building"
    /\ container' = Render(renderList, failAt)
    /\ isRendering' = (Render(renderList, failAt).kind = "error")
    /\ renderStage' = "idle"
    /\ renderList' = <<>>
    /\ UNCHANGED <<galleryImages, renderOf, dropped>>
    /\ NoToggle
    /\ GalleryFrame
\* The running render() builds the cards of the array it iterates and
\* attaches them, or shows the error presentation; finally clears
\* isRendering.
GalleryRenderFinish(failAt) ==
    /\ renderStage = "building"
    /\ container' = Render(renderList, failAt)
    /\ isRendering' = FALSE
    /\ renderStage' = "idle"
    /\ renderList' = <<>>
    /\ UNCHANGED <<galleryImages, renderOf, dropped>>
    /\ NoToggle
    /\ GalleryFrame

\* gallery.update(list) called from inside the running render():
\* this.images = list, then render() returns at its guard.
GalleryUpdateInside(list) ==
    /\ isRendering
    /\ galleryImages' = list
    /\ dropped' = TRUE
    /\ UNCHANGED <<container, isRendering, renderStage, renderList, renderOf>>
    /\ NoToggle
    /\ GalleryFrame

ToggledViewSticks(mode) == "list"
\* this.viewMode === 'grid' ? 'list' : 'grid'
ToggledView(mode) == IF mode = "grid" THEN "list" ELSE "grid"

\* gallery.toggleView(): the mode is flipped, the class names of the
\* container and of the cards are rewritten, one viewChanged event is
\* dispatched; render() is not called.
GalleryToggleView ==
    /\ viewMode' = ToggledView(viewMode)
    /\ viewEvents' = <<viewMode'>>
    /\ toggled' = TRUE
    /\ UNCHANGED <<galleryImages, container, renderVars>>
    /\ GalleryFrame

NextGallery ==
    \/ \E list \in Lists : GalleryUpdate(list)
    \/ GalleryRenderRead
    \/ \E failAt \in FailPoints : GalleryRenderFinish(failAt)
    \/ \E list \in Lists : GalleryUpdateInside(list)
    \/ GalleryToggleView

SpecGallery == InitGallery /\ [][NextGallery]_vars

\* render() is synchronous: once entered it runs to its finally clause.
SpecGalleryLive ==
    /\ SpecGallery
    /\ WF_vars(GalleryRenderRead)
    /\ WF_vars(\E failAt \in FailPoints : GalleryRenderFinish(failAt))

---------------------------------------------------------------------------
(* The Modal component with its image element and the timeouts of close(). *)
(* No listener of modalNavigation is attached.                             *)

\* Most timeouts of close() pending at once
MaxReleases == 2

\* What no step of this specification assigns
ReleaseFrame ==
    UNCHANGED <<appVars, navVars, themeVars, tabVars, filterVars, applyVars,
                wiredVars, renderVars, viewVars, raised, lazyVars>>

\* Modal.updateContent(): modalImage.src afterwards (src: before); it
\* returns early when images[currentIndex] is not there
UpdateContent(m, src) ==
    IF m.currentIndex + 1 \in 1..Len(m.images)
    THEN m.images[m.currentIndex + 1]
    ELSE src

ReleaseUnguarded(m, src) == 0
\* The callback of close()'s timeout: if (!this.isOpen) modalImage.src = ''
ReleaseCallback(m, src) == IF ~m.isOpen THEN 0 ELSE src

InitRelease ==
    /\ ModalIdle
    /\ ThemeIdle
    /\ RestIdle

\* modal.open(index, images)
ReleaseOpen(index, imgs) ==
    /\ SetModal(ModalOpen(ModalState, index, imgs))
    /\ modalSrc' = UpdateContent(ModalOpen(ModalState, index, imgs), modalSrc)
    /\ last' = Op("open", index, "", "", imgs)
    /\ UNCHANGED releases
    /\ ReleaseFrame

\* modal.close(): on an open modal it sets the timeout that releases the
\* image
ReleaseClose ==
    /\ isOpen => releases < MaxReleases
    /\ SetModal(ModalClose(ModalState))
    /\ releases' = IF isOpen THEN releases + 1 ELSE releases
    /\ last' = Op("close", 0, "", "", NoList)
    /\ UNCHANGED modalSrc
    /\ ReleaseFrame

\* modal.navigate(direction)
ReleaseNavigate(direction) ==
    /\ SetModal(ModalNavigate(ModalState, direction))
    /\ modalSrc' = IF NavigateGuard(ModalState)
                   THEN UpdateContent(ModalNavigate(ModalState, direction),
                                      modalSrc)
                   ELSE modalSrc
    /\ last' = Op("navigate", direction, "", "", NoList)
    /\ UNCHANGED releases
    /\ ReleaseFrame

\* modal.goToImage(index)
ReleaseGoToImage(index) ==
    /\ SetModal(ModalGoToImage(ModalState, index))
    /\ modalSrc' = IF GoToImageGuard(ModalState, index)
                   THEN UpdateContent(ModalGoToImage(ModalState, index),
                                      modalSrc)
                   ELSE modalSrc
    /\ last' = Op("goToImage", index, "", "", NoList)
    /\ UNCHANGED releases
    /\ ReleaseFrame

\* The oldest timeout of close() fires
ReleaseTimerFire ==
    /\ releases > 0
    /\ releases' = releases - 1
    /\ modalSrc' = ReleaseCallback(ModalState, modalSrc)
    /\ last' = Op("release", 0, "", "", NoList)
    /\ UNCHANGED modalVars
    /\ ReleaseFrame

NextRelease ==
    \/ \E index \in Indexes, imgs \in Lists : ReleaseOpen(index, imgs)
    \/ ReleaseClose
    \/ \E direction \in {-1, 1} : ReleaseNavigate(direction)
    \/ \E index \in Indexes : ReleaseGoToImage(index)
    \/ ReleaseTimerFire

SpecRelease == InitRelease /\ [][NextRelease]_vars

---------------------------------------------------------------------------
(* The img elements of the rendered cards, the IntersectionObserver and    *)
(* the resize timeout of the Gallery.  An img is a record:                 *)
(* image is the image the card shows, src is what its                      *)
(* src attribute names ("blank": the inline grey rectangle of the card's   *)
(* markup, "original": dataset.src, "placeholder": the generated one),     *)
(* loading says that the request of the original is in flight, requests    *)
(* counts the requests of the original started so far.                     *)

\* Most requests of one card's original source
MaxRequests == 2

\* The cards of the rendered list, and the lists the gallery is given
Cards == {1, 2}
LazyLists == {<<1, 2>>, <<2, 1>>}

\* The img of a card as render() built it for the image and
\* observeImages() observed it
FreshImg(image, visible) ==
    [image |-> image, src |-> "blank", observed |-> TRUE,
     visible |-> visible, loading |-> FALSE, error |-> FALSE,
     requests |-> 0]

\* Gallery.loadImage(img): dataset.src is always there; the listeners are
\* added and img.src = src starts the request
LoadImage(img) ==
    [img EXCEPT !.src = "original", !.loading = TRUE, !.requests = @ + 1]

\* The observer's callback for an entry that is intersecting: loadImage,
\* then unobserve
IntersectionCallback(img) == [LoadImage(img) EXCEPT !.observed = FALSE]

\* The error listener(s) loadImage added: class error, the alt text, and
\* img.src = generatePlaceholder(...)
OnImageError(img) ==
    [img EXCEPT !.error = TRUE, !.src = "placeholder", !.loading = FALSE]

\* The load listener(s) loadImage added: class loaded
OnImageLoad(img) == [img EXCEPT !.loading = FALSE]

\* Gallery.observeImages(): every img[data-src] of the container is
\* observed (data-src is never removed from an img)
ObserveImages(imgs) == [card \in DOMAIN imgs |->
                           [imgs[card] EXCEPT !.observed = TRUE]]

\* What no step of this specification assigns
LazyFrame ==
    UNCHANGED <<modalVars, appVars, navVars, last, themeVars, tabVars,
                filterVars, applyVars, wiredVars, renderVars, viewVars,
                raised, relVars>>

\* The gallery has rendered its cards; each is inside the observer's
\* margin or outside
InitLazy ==
    /\ ModalIdle
    /\ ThemeIdle
    /\ CoreIdle
    /\ QuietIdle
    /\ \E shown \in [Cards -> BOOLEAN] :
          cardImgs = [card \in Cards |-> FreshImg(card, shown[card])]
    /\ resizeTimer = FALSE

\* The page is scrolled: the card enters or leaves the observer's margin
LazyScroll(card) ==
    /\ cardImgs' = [cardImgs EXCEPT ![card].visible = ~@]
    /\ UNCHANGED resizeTimer
    /\ LazyFrame

\* The observer reports an observed img as intersecting (an img that
\* observe() was called for and that is inside the margin gets such an
\* entry, also when it was observed and unobserved before)
LazyIntersect(card) ==
    /\ cardImgs[card].observed
    /\ cardImgs[card].visible
    /\ cardImgs[card].requests < MaxRequests
    /\ cardImgs' = [cardImgs EXCEPT ![card] = IntersectionCallback(@)]
    /\ UNCHANGED resizeTimer
    /\ LazyFrame

\* The request of a card's original source ends: load or error
LazyLoadEnds(card, ok) ==
    /\ cardImgs[card].loading
    /\ cardImgs' = [cardImgs EXCEPT ![card] =
                       IF ok THEN OnImageLoad(@) ELSE OnImageError(@)]
    /\ UNCHANGED resizeTimer
    /\ LazyFrame

\* The window is resized and GalleryApp's debounced listener has called
\* gallery.handleResize(): clearTimeout, setTimeout
LazyResize ==
    /\ resizeTimer' = TRUE
    /\ UNCHANGED cardImgs
    /\ LazyFrame

\* The resize timeout fires: observeImages()
LazyResizeTimerFire ==
    /\ resizeTimer
    /\ resizeTimer' = FALSE
    /\ cardImgs' = ObserveImages(cardImgs)
    /\ LazyFrame

\* gallery.update(list) renders the cards anew, for the images of list
LazyRerender(list) ==
    /\ cardImgs' = [card \in Cards |->
                       FreshImg(list[card], cardImgs[card].visible)]
    /\ UNCHANGED resizeTimer
    /\ LazyFrame

NextLazy ==
    \/ \E card \in Cards : LazyScroll(card)
    \/ \E card \in Cards : LazyIntersect(card)
    \/ \E card \in Cards, ok \in BOOLEAN : LazyLoadEnds(card, ok)
    \/ LazyResize
    \/ LazyResizeTimerFire
    \/ \E list \in LazyLists : LazyRerender(list)

SpecLazy == InitLazy /\ [][NextLazy]_vars

---------------------------------------------------------------------------
(* Properties of the modal and of the wired application (under Spec) *)

\* C1: whenever the modal is open and its image list is non-empty,
\* 0 <= currentIndex < len(images), after any sequence of open, navigate,
\* goToImage and close calls with integer arguments.
C1_IndexInBounds ==
    (isOpen /\ Len(images) > 0) =>
        (0 <= currentIndex /\ currentIndex < Len(images))

\* an open with an index beyond the list has been clamped to the last image
C1_Witness ==
    /\ isOpen
    /\ last.op = "open"
    /\ Len(images) >= 2
    /\ last.arg > Len(images)
    /\ currentIndex = Len(images) - 1

\* C2: Modal.open(index, images) with an empty images list is a no-op: the
\* modal state (isOpen, images, currentIndex, body scroll) is left as it
\* was, so a closed modal stays closed and body scroll is not frozen.
C2_EmptyOpenIsNoOp ==
    [][(depth = 0 /\ last'.op \in {"open", "cardActivate"}
                  /\ last'.list = <<>>)
          => UNCHANGED modalVars]_vars

\* C3: after Modal.open(index, images) with N = len(images) > 0 and any
\* integer index, currentIndex = max(0, min(index, N - 1)) and images is
\* the list that was passed.
C3_OpenClamps ==
    (last.op = "open" /\ Len(last.list) > 0) =>
        /\ currentIndex = (IF last.arg < 0 THEN 0
                           ELSE IF last.arg > Len(last.list) - 1
                                THEN Len(last.list) - 1
                           ELSE last.arg)
        /\ images = last.list

\* a negative index has been clamped to 0 on a list of several images
C3_Witness ==
    /\ last.op = "open"
    /\ last.arg < 0
    /\ Len(last.list) >= 2
    /\ isOpen
    /\ currentIndex = 0
    /\ images = last.list

\* A step that is one call of Modal.navigate(d): a direct call or a click
\* on the previous/next control ...
TopNavigateCall(d) ==
    depth = 0 /\ last'.op \in {"navigate", "navclick"} /\ last'.arg = d
\* ... or the call GalleryApp's modalNavigation listener makes.
ListenerNavigateCall(d) ==
    depth >= 1 /\ depth' = depth + 1 /\ navDir = d

C5_OneStepPerInput ==
    (depth = 0 /\ last.op \in {"keydown", "navclick", "touchend"}
               /\ navEvents >= 1) =>
        /\ navEvents = 1
        /\ currentIndex = (navStart + navDir) % Len(images)

\* C6: Modal.goToImage(index) with an index out of range, or on a closed
\* modal, leaves isOpen, images and currentIndex unchanged; with an index
\* in range on an open modal it sets currentIndex to that index and leaves
\* isOpen and images unchanged.
C6_GoToImage ==
    [][(depth = 0 /\ last'.op = "goToImage") =>
          IF isOpen /\ 0 <= last'.arg /\ last'.arg < Len(images)
          THEN currentIndex' = last'.arg /\ UNCHANGED <<isOpen, images>>
          ELSE UNCHANGED <<isOpen, images, currentIndex>>
      ]_vars

\* goToImage(len(images)) on an open modal has left the index where it was
C6_Witness ==
    /\ last.op = "goToImage"
    /\ isOpen
    /\ Len(images) >= 2
    /\ last.arg = Len(images)
    /\ navStart = 1
    /\ currentIndex = 1

\* C7: while the modal is open, a key press whose target is a text input
\* changes no modal state: the modal stays open, currentIndex is unchanged.
C7_KeysInTextInputIgnored ==
    [][(depth = 0 /\ isOpen /\ last'.op = "keydown"
                  /\ last'.target \in TextInputs)
          => (isOpen' /\ currentIndex' = currentIndex)]_vars

---------------------------------------------------------------------------
(* Properties of the Theme controller (under SpecTheme) *)

\* the cycle light -> dark -> auto -> light
CycleSucc(theme) ==
    IF theme = "light" THEN "dark"
    ELSE IF theme = "dark" THEN "auto"
    ELSE "light"

\* C8: toggle() advances the mode along light -> dark -> auto -> light:
\* from a starting mode in {light, dark, auto}, after one and two
\* consecutive calls the mode is one and two steps along the cycle, and
\* after three it is the starting mode again.
C8_ToggleCycle ==
    toggleStart \in {"light", "dark", "auto"} =>
        /\ toggleRun = 1 => currentTheme = CycleSucc(toggleStart)
        /\ toggleRun = 2 => currentTheme = CycleSucc(CycleSucc(toggleStart))
        /\ toggleRun = 3 => currentTheme = toggleStart

\* three consecutive toggle() calls from dark have come back to dark
C8_Witness ==
    /\ tlast.op = "toggle"
    /\ toggleRun = 3
    /\ toggleStart = "dark"
    /\ currentTheme = "dark"

\* C9: setTheme(value) with a value outside {light, dark, auto} does not
\* throw, leaves the mode, the applied theme and the stored value
\* unchanged, and publishes no theme-changed event.
C9_SetThemeRejectsIllegal ==
    [][(tlast'.op = "setTheme" /\ tlast'.arg \notin {"light", "dark", "auto"})
          => /\ UNCHANGED <<currentTheme, appliedTheme, storage>>
             /\ themeEvents' = 0
             /\ tlast'.result = "ok"]_vars

\* setTheme('blue') was called in mode dark and changed nothing
C9_Witness ==
    /\ tlast.op = "setTheme"
    /\ tlast.arg = "blue"
    /\ currentTheme = "dark"
    /\ appliedTheme = "dark"
    /\ storage = "dark"
    /\ themeEvents = 0

\* C10: in every reachable state of the Theme controller the mode is one
\* of light, dark, auto and the applied effective theme is light or dark.
C10_ModeIsLegal ==
    /\ currentTheme \in {"light", "dark", "auto"}
    /\ appliedTheme \in {"light", "dark"}

\* C11: with two or more tabs sharing the theme storage key, for every
\* interleaving of setTheme/toggle calls and storage-notification
\* deliveries: once every notification has been delivered, every tab's mode
\* equals the value held in storage (the tabs converge).
C11_TabsConverge ==
    ((\A tab \in Tabs : inbox[tab] = <<>>) /\ storage # Null) =>
        \A tab \in Tabs : tabTheme[tab] = storage

\* C12: a change of the system dark-mode signal changes the applied theme
\* only when the mode is auto; after every handler the applied theme is
\* the effective theme: the mode itself for light and dark, and dark or
\* light after the system signal when the mode is auto.
C12_AppliedIsEffective ==
    /\ [](/\ currentTheme \in {"light", "dark"} => appliedTheme = currentTheme
          /\ currentTheme = "auto" =>
                appliedTheme = (IF systemDark THEN "dark" ELSE "light"))
    /\ [][(systemDark' # systemDark /\ currentTheme # "auto")
             => appliedTheme' = appliedTheme]_vars

\* the system turned dark while the mode was auto, and dark is applied
C12_Witness ==
    /\ tlast.op = "systemChange"
    /\ currentTheme = "auto"
    /\ systemDark
    /\ appliedTheme = "dark"

\* C13: at startup the mode is seeded from storage: a legal stored value is
\* taken as the mode; otherwise the mode is dark when the system prefers
\* dark and light when it does not.
C13_StartupSeed ==
    tlast.op = "startup" =>
        currentTheme = (IF storage \in {"light", "dark", "auto"} THEN storage
                        ELSE IF systemDark THEN "dark" ELSE "light")

\* C14: importSettings never throws: for settings whose theme is not legal
\* (a missing field, a null or non-object settings value included) it
\* returns failure and leaves mode and storage unchanged; for a legal
\* theme it applies it and returns success.
C14_ImportNeverThrows ==
    [][tlast'.op = "importSettings" =>
          /\ tlast'.result # "throw"
          /\ IF tlast'.arg \in {"light", "dark", "auto"}
             THEN tlast'.result = "true" /\ currentTheme' = tlast'.arg
             ELSE tlast'.result = "false"
                  /\ UNCHANGED <<currentTheme, storage>>]_vars

\* C15: a setTheme with a legal value whose storage write succeeds leaves
\* the new mode in storage; when the write fails setTheme still does not
\* throw, the mode and the applied theme take the new value, the stored
\* value stays, and the theme-changed event is published all the same.
C15_SetThemeSurvivesWriteFailure ==
    [][(tlast'.op = "setTheme" /\ tlast'.arg \in {"light", "dark", "auto"}) =>
          /\ tlast'.result = "ok"
          /\ currentTheme' = tlast'.arg
          /\ appliedTheme' = (IF tlast'.arg = "auto"
                              THEN (IF systemDark THEN "dark" ELSE "light")
                              ELSE tlast'.arg)
          /\ themeEvents' = 1
          /\ storage' = (IF writeFailed' THEN storage ELSE tlast'.arg)]_vars

\* setTheme('dark') ran with a failing storage write: the mode is dark, the
\* event was published, the storage still holds the old value
C15_Witness ==
    /\ tlast.op = "setTheme"
    /\ tlast.arg = "dark"
    /\ writeFailed
    /\ currentTheme = "dark"
    /\ appliedTheme = "dark"
    /\ themeEvents = 1
    /\ storage = "light"

---------------------------------------------------------------------------
(* Properties of the Filters criteria (under SpecFilters) *)

\* C16: after setSort(key, order) with a key outside {name, date,
\* category} the sort key is name and no error is raised; consequently the
\* sort key is one of name, date, category in every state reachable through
\* setSort, setState and the restore from the URL.
C16_SortKeyIsLegal ==
    /\ sortBy \in {"name", "date", "category"}
    /\ (flast.op = "setSort" /\ flast.key \notin {"name", "date", "category"})
          => sortBy = "name"

---------------------------------------------------------------------------
(* Properties of Filters.apply (under SpecApply) *)

\* C17: apply(apply(images)) = apply(images) as a sequence, for every
\* criteria and every image list.
C17_ApplyIdempotent ==
    flast.op = "apply" => Apply(FState, engine, filtered) = filtered

\* apply dropped an image of four and put the other three, which tie in
\* part, in another order
C17_Witness ==
    /\ flast.op = "apply"
    /\ searchTerm = Red
    /\ sortBy = "date"
    /\ sortOrder = "desc"
    /\ Len(data) = 4
    /\ Len(filtered) = 3
    /\ filtered # SelectSeq(data, LAMBDA id :
                              \E j \in 1..Len(filtered) : filtered[j] = id)
    /\ \E i \in 1..2 : Catalog[filtered[i]].dateAdded
                          = Catalog[filtered[i + 1]].dateAdded

RECURSIVE PiecesAt(_, _, _)
\* the pieces of s between characters of seps, after the piece cur
PiecesAt(s, seps, cur) ==
    IF s = <<>> THEN {cur}
    ELSE IF Head(s) \in seps THEN {cur} \cup PiecesAt(Tail(s), seps, <<>>)
    ELSE PiecesAt(Tail(s), seps, Append(cur, Head(s)))

\* the sub-terms of a search term that seps separate
SubTerms(term, seps) == PiecesAt(term, seps, <<>>) \ {<<>>}

\* the lower-cased filename, description, category and tags of an image
LowerFields(id) ==
    {ToLowerCase(Catalog[id].filename), ToLowerCase(Catalog[id].description),
     ToLowerCase(Catalog[id].category)}
    \cup {ToLowerCase(Catalog[id].tags[i]) : i \in 1..Len(Catalog[id].tags)}

\* every sub-term is a substring of some field of the image
PassesSearch(id, seps) ==
    \A sub \in SubTerms(searchTerm, seps) :
        \E field \in LowerFields(id) : Includes(field, sub)

PassesCategory(id) ==
    selectedCategory = <<>> \/ Catalog[id].category = selectedCategory

Kept(id) == \E j \in 1..Len(filtered) : filtered[j] = id

\* C18: with a non-empty search term an image (of the selected category)
\* is kept if and only if every whitespace-separated sub-term of the term
\* is a substring of at least one of its lower-cased filename,
\* description, category or tags; different sub-terms may match different
\* fields.
C18_SearchKeepsMatches ==
    (flast.op = "apply" /\ searchTerm # <<>>) =>
        \A k \in 1..Len(data) :
            Kept(data[k]) <=>
                (PassesSearch(data[k], Whitespace) /\ PassesCategory(data[k]))

\* An image's date as a sort key, where it has one: an unparsable date has
\* none.
HasDateKey(id) == ~DateTime(Catalog[id].dateAdded).nan

\* key(a) <= key(b) for the sort key in force
KeyLeq(a, b) ==
    IF sortBy = "name"
    THEN LocaleCompare(ToLowerCase(Catalog[a].filename),
                       ToLowerCase(Catalog[b].filename)) <= 0
    ELSE IF sortBy = "category"
    THEN LocaleCompare(ToLowerCase(Catalog[a].category),
                       ToLowerCase(Catalog[b].category)) <= 0
    ELSE (HasDateKey(a) /\ HasDateKey(b)) =>
            DateTime(Catalog[a].dateAdded).v <= DateTime(Catalog[b].dateAdded).v

\* C19: apply returns exactly the images that pass the search filter and
\* the category filter, ordered by the sort key: ascending gives
\* non-decreasing keys (names a before b, the earliest date first),
\* descending non-increasing keys.  Keys are compared where both images
\* have one.
C19_ApplyFiltersAndSorts ==
    (flast.op = "apply" /\ sortBy \in {"name", "date", "category"}
                        /\ sortOrder \in {"asc", "desc"}) =>
        /\ \A k \in 1..Len(data) :
              Kept(data[k]) <=>
                  (PassesSearch(data[k], {" "}) /\ PassesCategory(data[k]))
        /\ \A j \in 1..Len(filtered) : \E k \in 1..Len(data) : data[k] = filtered[j]
        /\ \A i, j \in 1..Len(filtered) : i # j => filtered[i] # filtered[j]
        /\ \A i, j \in 1..Len(filtered) :
              i < j => IF sortOrder = "asc"
                       THEN KeyLeq(filtered[i], filtered[j])
                       ELSE KeyLeq(filtered[j], filtered[i])

\* The date an image is ordered by when an unparsable date counts as the
\* epoch, like a missing one.
DateKey(id) ==
    IF HasDateKey(id) THEN DateTime(Catalog[id].dateAdded).v ELSE 0

\* the sort keys of two images are equal
SameKey(a, b) ==
    IF sortBy = "name"
    THEN ToLowerCase(Catalog[a].filename) = ToLowerCase(Catalog[b].filename)
    ELSE IF sortBy = "category"
    THEN ToLowerCase(Catalog[a].category) = ToLowerCase(Catalog[b].category)
    ELSE DateKey(a) = DateKey(b)

\* the position of a kept image in the result
PositionOf(id) == CHOOSE j \in 1..Len(filtered) : filtered[j] = id

\* C20: images whose sort keys compare equal keep their relative input
\* order in the result, in ascending and in descending order alike.
C20_SortIsStable ==
    (flast.op = "apply" /\ sortBy \in {"name", "date", "category"}) =>
        \A i, j \in 1..Len(data) :
            (i < j /\ Kept(data[i]) /\ Kept(data[j])
                   /\ SameKey(data[i], data[j]))
                => PositionOf(data[i]) < PositionOf(data[j])

\* C21: when sorting by date, an image whose dateAdded is missing or is not
\* a valid date is ordered as if its date were the epoch: the comparator
\* orders any two images as their dates order them with the epoch standing
\* in for a missing or unparsable date (a consistent total preorder), and
\* in ascending order no image comes after one with a later date.
C21_InvalidDateIsEpoch ==
    (flast.op = "apply" /\ sortBy = "date" /\ sortOrder = "asc") =>
        /\ \A i, j \in 1..Len(data) :
              /\ SortCompare(FState, data[i], data[j]) < 0
                    <=> DateKey(data[i]) < DateKey(data[j])
              /\ SortCompare(FState, data[i], data[j]) = 0
                    <=> DateKey(data[i]) = DateKey(data[j])
        /\ \A i, j \in 1..Len(filtered) :
              i < j => DateKey(filtered[i]) <= DateKey(filtered[j])

---------------------------------------------------------------------------
(* Properties of the Filters criteria and the URL (under SpecFilters) *)

\* criteria as the setters leave them: a normalized search term, a sort key
\* in {name, date, category}, an order in {asc, desc}
SetterCriteria ==
    /\ searchTerm = Trim(ToLowerCase(searchTerm))
    /\ sortBy \in {"name", "date", "category"}
    /\ sortOrder \in {"asc", "desc"}

\* C22: for every criteria reachable through the setters, writing the
\* criteria to the URL query parameters and restoring a fresh Filters from
\* those parameters reproduces the identical criteria.
C22_UrlRoundTrip ==
    SetterCriteria =>
        RestoreFiltersFromURL(DefaultFilters, UpdateURL(FState)) = FState

\* C23: the URL query parameters are written on every filter mutation:
\* after setSearch, setCategory, setSort, clearSearch, clearAll, setState
\* and the input handlers that call them, the URL parameters are the
\* serialization of the current criteria, default values omitted.
C23_UrlFollowsCriteria ==
    flast.op \in {"setSearch", "setCategory", "setSort", "clearSearch",
                  "clearAll", "setState", "searchInput", "categoryChange",
                  "sortChange"}
        => url = UpdateURL(FState)

---------------------------------------------------------------------------
(* Properties of the Gallery component (under SpecGallery) *)

\* C26: an update that arrives while a render is in progress is dropped:
\* it starts no second render and none is queued, and once the render in
\* progress has finished, the cards shown and the current list that
\* card-activated events report are those of the render in progress.
C26_UpdateDuringRenderDropped ==
    (renderStage = "idle" /\ dropped) =>
        /\ ~isRendering
        /\ galleryImages = renderOf
        /\ container.kind = "cards" => container.cards = renderOf
        /\ container.kind = "empty" => renderOf = <<>>

---------------------------------------------------------------------------
(* Properties of the application after init() (under SpecApp) *)

\* C24: the master image list is never mutated: after any sequence of filter
\* changes, apply calls, gallery updates and modal operations, data.images
\* is the list that was loaded (apply sorts only its own copy).
C24_MasterNeverMutated == data = master

\* The list was recomputed into another order than the master's and a
\* card of it opened in the modal.
C24_Witness ==
    /\ master # <<>>
    /\ Len(filtered) = Len(master)
    /\ filtered # master
    /\ sortBy = "date"
    /\ isOpen

\* C25: when the loaded data has no images, an images that is not a
\* sequence, or no categories, construction fails and the application ends
\* in the error state: the error presentation with the reload control is
\* shown, the loading indicator is cleared, no Filters exists, and no later
\* user event recomputes the list or renders cards.
C25_BadDataEndsInErrorState ==
    dataKind \in {"noImages", "imagesNotArray", "noCategories"} =>
        /\ container = ShowError
        /\ ~loading
        /\ ~filtersBuilt
        /\ filtered = <<>>
        /\ FState = DefaultFilters
        /\ timers = <<>>
        /\ ~isOpen

\* Data with images and no categories; text was typed into the search
\* input afterwards.
C25_Witness ==
    /\ dataKind = "noCategories"
    /\ master # <<>>
    /\ inputValue # <<>>

\* C27: after every render that completes, the gallery shows exactly one
\* of: one card per image of the current list, in the list's order; the
\* empty state, exactly when the list is empty; the error presentation.
\* It never shows a part of the cards, and an empty list never produces the
\* error presentation.
C27_RenderOutputIsWhole ==
    dataKind = "ok" =>
        \/ galleryImages = <<>> /\ container = [kind |-> "empty", cards |-> <<>>]
        \/ /\ galleryImages # <<>>
           /\ \/ container = [kind |-> "cards", cards |-> galleryImages]
              \/ container = [kind |-> "error", cards |-> <<>>]

\* A render after a category was chosen raised while building a card.
C27_Witness ==
    /\ container.kind = "error"
    /\ selectedCategory # <<>>
    /\ Len(galleryImages) >= 2

\* C28: a card-activated event carries the list currently rendered (the
\* filtered list, not the master) and the card's index, and the modal ends
\* up opened with that list at that index; after every handler the
\* coordinator's current list is the gallery's current list.
C28_ActivationCarriesRenderedList ==
    /\ currentImages = galleryImages
    /\ activated >= 0 =>
          /\ isOpen
          /\ images = galleryImages
          /\ images = container.cards
          /\ currentIndex = activated

\* A card beyond the first of a filtered list was activated.
C28_Witness ==
    /\ activated >= 1
    /\ Len(galleryImages) < Len(master)

\* C29: while the modal is open, a filter change or a re-render of the
\* gallery leaves the modal's snapshot of the images and its current index
\* unchanged.
C29_ModalSnapshotKept ==
    [][(/\ isOpen
        /\ \/ <<searchTerm, selectedCategory, sortBy, sortOrder>>'
                 # <<searchTerm, selectedCategory, sortBy, sortOrder>>
           \/ galleryImages' # galleryImages
           \/ container' # container)
          => UNCHANGED <<images, currentIndex>>]_vars

\* The modal is open on a list the gallery no longer shows.
C29_Witness ==
    /\ isOpen
    /\ container.kind = "cards"
    /\ images # galleryImages

\* GalleryApp's search timeout is pending
AppTimerPending == \E i \in 1..Len(timers) : timers[i] = "app"

\* C30: the search input is debounced, the timer reset on each keystroke:
\* a keystroke followed by another inside the quiet window causes no
\* recompute+render, and every burst of keystrokes is eventually followed
\* by exactly one recompute+render, made with the text of the last
\* keystroke.
C30_SearchDebounced ==
    /\ [](burstRenders <= 1)
    /\ [][burstRenders' = burstRenders + 1 =>
            /\ ~AppTimerPending'
            /\ searchTerm' = Trim(ToLowerCase(inputValue))
            /\ galleryImages' =
                  Apply([searchTerm |-> searchTerm',
                         selectedCategory |-> selectedCategory',
                         sortBy |-> sortBy', sortOrder |-> sortOrder'],
                        engine, data)]_vars
    /\ AppTimerPending ~> (burstRenders = 1 /\ ~AppTimerPending)

\* A burst of several keystrokes ended and was rendered once, with the
\* text left in the input.
C30_Witness ==
    /\ burstKeys >= 2
    /\ burstRenders = 1
    /\ timers = <<>>
    /\ inputValue # <<>>
    /\ searchTerm = Trim(ToLowerCase(inputValue))
    /\ galleryImages = Apply(FState, engine, data)

---------------------------------------------------------------------------
(* Further properties of the theme button, the modal and the setters *)

\* C35: in the wired application one click on the theme toggle button
\* advances the mode by exactly one step of light -> dark -> auto -> light.
C35_ClickAdvancesOneStep ==
    [][(tlast'.op = "click" /\ currentTheme \in {"light", "dark", "auto"})
          => currentTheme' = CycleSucc(currentTheme)]_vars

\* C38: body scroll is frozen exactly when the modal is open: open freezes
\* it, close restores it, close on a closed modal changes nothing, and
\* navigate and goToImage do not alter it.
C38_ScrollFrozenIffOpen ==
    /\ [](bodyOverflow = "hidden" <=> isOpen)
    /\ [][(last'.op \in {"navigate", "navclick", "goToImage"})
             => UNCHANGED bodyOverflow]_vars
    /\ [][(last'.op = "close" /\ ~isOpen) => UNCHANGED modalVars]_vars

\* A modal that had been opened on a list was closed and the scroll is
\* restored.
C38_Witness ==
    /\ last.op = "close"
    /\ images # <<>>
    /\ ~isOpen
    /\ bodyOverflow = ""

\* C39: each setter changes only its own fields: setSearch leaves the
\* category, the sort key and the order as they are; setCategory leaves the
\* search term, the sort key and the order; setSort leaves the search term
\* and the category, and called without an order it sets the order to asc.
C39_SettersChangeOwnFields ==
    [][/\ flast'.op = "setSearch"
            => UNCHANGED <<selectedCategory, sortBy, sortOrder>>
       /\ flast'.op = "setCategory"
            => UNCHANGED <<searchTerm, sortBy, sortOrder>>
       /\ flast'.op = "setSort"
            => /\ UNCHANGED <<searchTerm, selectedCategory>>
               /\ flast'.order = Undefined => sortOrder' = "asc"]_vars

\* setSort(key) without an order was called on criteria that had a search
\* term and a category.
C39_Witness ==
    /\ flast.op = "setSort"
    /\ flast.order = Undefined
    /\ flast.key = "date"
    /\ sortBy = "date"
    /\ sortOrder = "asc"
    /\ searchTerm # <<>>
    /\ selectedCategory # <<>>

\* C36: whenever no debounce timer is pending, the list the gallery has
\* rendered is apply(master list) under the current criteria, after every
\* user filter interaction: typing in the search field, changing the
\* category or the sort, clearing the search with Escape.
C36_RenderedIsApplyOfCriteria ==
    (dataKind = "ok" /\ timers = <<>>) =>
        galleryImages = Apply(FState, engine, data)

\* C34: when the card at index i of a rendered list of more than one image
\* is activated by pointer, by Enter or by Space, then once the handling of
\* that one input event has completed (the listeners on the card and on the
\* document have run) the modal is open with currentIndex = i.
C34_ActivationOpensAtCard ==
    (/\ last.op \in {"cardActivate", "cardKey"}
     /\ depth = 0
     /\ Len(last.list) > 1)
        => isOpen /\ images = last.list /\ currentIndex = last.arg

\* C40: isRendering is false whenever no render is executing: render()
\* clears it on each of its exits (empty list, cards attached, error
\* caught), so a render that has been entered ends with the flag cleared
\* and a later update is not blocked by an earlier render.
C40_RenderingFlagCleared ==
    /\ [](renderStage = "idle" => ~isRendering)
    /\ [][(renderStage # "idle" /\ renderStage' = "idle")
             => ~isRendering']_vars
    /\ isRendering ~> ~isRendering

\* A render left through its catch clause, the flag cleared.
C40_Witness ==
    /\ renderStage = "idle"
    /\ container.kind = "error"
    /\ renderOf # <<>>
    /\ ~isRendering

\* C33: toggleView flips viewMode between grid and list (two toggles in a
\* row restore the mode), leaves the image list and the rendered cards as
\* they are (no render is started) and publishes one viewChanged event
\* that carries the new mode.
C33_ToggleViewFlipsOnly ==
    /\ [](viewMode \in {"grid", "list"})
    /\ [][toggled' =>
            /\ viewMode' = (IF viewMode = "grid" THEN "list" ELSE "grid")
            /\ (toggled => viewEvents = <<viewMode>> /\ viewEvents' # viewEvents)
            /\ viewEvents' = <<viewMode'>>
            /\ UNCHANGED <<galleryImages, container, isRendering,
                           renderStage, renderList>>]_vars
    /\ [][~toggled' => UNCHANGED viewMode]_vars

\* The view was toggled to list over rendered cards.
C33_Witness ==
    /\ toggled
    /\ viewMode = "list"
    /\ viewEvents = <<"list">>
    /\ container.kind = "cards"
    /\ Len(container.cards) >= 2

---------------------------------------------------------------------------
(* Properties of the application over an ill-typed image (under            *)
(* SpecAppIllTyped)                                                        *)

\* C32: when Filters.apply raises during a recompute, updateGallery's catch
\* takes over: the gallery area shows the error presentation, which is not
\* the empty state, GalleryApp's current list and the Gallery's list keep
\* the values they had, and a later recompute that succeeds renders the
\* applied list again.
C32_ApplyErrorCaught ==
    /\ [](raised => /\ container.kind = "failed"
                    /\ container.kind # Render(<<>>, 0).kind)
    /\ [][(~raised /\ raised') => ApplyRaises(FState', data)]_vars
    /\ [][raised' => UNCHANGED <<currentImages, galleryImages, filtered>>]_vars
    /\ [][(raised /\ ~raised') =>
            /\ ~ApplyRaises(FState', data')
            /\ currentImages' = Apply(FState', engine', data')
            /\ galleryImages' = currentImages'
            /\ container' \in {Render(currentImages', failAt) :
                                  failAt \in FailPoints}]_vars

\* A recompute raised over a rendered list: the error presentation is
\* shown and both lists still hold the images rendered before.
C32_Witness ==
    /\ raised
    /\ container.kind = "failed"
    /\ Len(galleryImages) >= 2
    /\ currentImages = galleryImages

---------------------------------------------------------------------------
(* Properties of the modal's image element (under SpecRelease) *)

\* C37: however open and close calls interleave with the firing of
\* close's timeouts, an open modal (over a list that is not empty) shows
\* the source of images[currentIndex]: a timeout set by an earlier close
\* does not clear the image of a modal opened again before it fires.
C37_OpenModalShowsCurrent ==
    /\ []((isOpen /\ images # <<>>) =>
             /\ currentIndex \in 0..(Len(images) - 1)
             /\ modalSrc = images[currentIndex + 1])
    /\ [][(last'.op = "release" /\ isOpen) => modalSrc' = modalSrc]_vars
    /\ [][(last'.op = "release" /\ ~isOpen) => modalSrc' = 0]_vars

\* A timeout of an earlier close fired on a modal opened again, another
\* still pending.
C37_Witness ==
    /\ last.op = "release"
    /\ isOpen
    /\ releases > 0
    /\ Len(images) >= 2
    /\ modalSrc = images[currentIndex + 1]

---------------------------------------------------------------------------
(* Properties of the lazy loading of the cards' images (under SpecLazy) *)

\* C31: an image whose load failed shows the placeholder and its card
\* stays marked as an error, and the load of its original source is not
\* started again by any later event (resize, re-observation, intersection)
\* until the gallery is rendered anew.
C31_FailedImageNotRetried ==
    /\ [](\A card \in Cards :
             cardImgs[card].error => cardImgs[card].src = "placeholder")
    /\ [][\A card \in Cards :
             (cardImgs[card].error /\ cardImgs'[card].error) =>
                 cardImgs'[card].requests = cardImgs[card].requests]_vars

=============================================================================
